---- MODULE Spec2Model ----
(***************************************************************************)
(* Shopping-thumbnail pipeline of backend/shopping_pipeline.py:            *)
(* run_pipeline and the functions it calls (scrape_naver_product,          *)
(* remove_background_local, remove_background_replicate,                   *)
(* analyze_product_gemini, generate_background_gemini,                     *)
(* composite_thumbnail).  One behaviour is one call of run_pipeline (Spec) *)
(* or one call of scrape_naver_product (SpecScrape); the network, the      *)
(* browsers, the inference services and the file system are inputs chosen  *)
(* nondeterministically at the call that consults them.                    *)
(***************************************************************************)
EXTENDS Integers, Sequences, FiniteSets, TLC

(***************************************************************************)
(* Values                                                                  *)
(***************************************************************************)

\* Python None for an image URL.  Of a URL the code reads only whether it is
\* there and whether it points to the retailer's CDN
\* ("pstatic.net" in url or "naver" in url.lower()).
NoUrl == [src |-> "none", naver |-> FALSE]

ImageUrl(src, naver) == [src |-> src, naver |-> naver]

\* Python None for a title, and a title.
NoTitle == "None"

SomeTitle == "title"

\* Bytes: None, b"" (falsy but not None), bytes not yet decoded ("data"), bytes
\* that are an image of w x h pixels ("image": grad holds the two endpoints
\* when it is a rendered gradient) or bytes no decoder accepts ("garbage").
\* src names where they come from.
NoBytes == [k |-> "none", src |-> "none", w |-> 0, h |-> 0, grad |-> <<>>]

EmptyBytes == [k |-> "empty", src |-> "none", w |-> 0, h |-> 0, grad |-> <<>>]

Bytes(src) == [k |-> "data", src |-> src, w |-> 0, h |-> 0, grad |-> <<>>]

Garbage(src) == [k |-> "garbage", src |-> src, w |-> 0, h |-> 0, grad |-> <<>>]

ImageBytes(src, w, h, grad) == [k |-> "image", src |-> src, w |-> w, h |-> h, grad |-> grad]

\* Python None for an error message.  A message keeps its identity, the HTTP
\* status it quotes and the hint run_pipeline may append to it.
NoErr == [id |-> "None", status |-> 0, hint |-> "none"]

Msg(id) == [id |-> id, status |-> 0, hint |-> "none"]

MsgHttp(id, status) == [id |-> id, status |-> status, hint |-> "none"]

\* bool(x) of Python for bytes: None and b"" are falsy.
Truthy(b) == b.k \notin {"none", "empty"}

\* x or y of Python for two optional messages.
OrElse(a, b) == IF a # NoErr THEN a ELSE b

\* A hex colour string is the sequence of its characters.
White == <<"#", "f", "f", "f", "f", "f", "f">>

\* The value under "core_colors": the key is absent, it is a list of strings,
\* or it is something ", ".join cannot take (a number, a list of numbers).
NoColors == [k |-> "absent", v |-> <<>>]

ColorList(v) == [k |-> "list", v |-> v]

\* Python None for the concept; {} is the empty dictionary.
NoConcept == [k |-> "none", category |-> "", colors |-> NoColors, background_concept |-> ""]

EmptyDict == [k |-> "empty", category |-> "", colors |-> NoColors, background_concept |-> ""]

\* The dictionary run_pipeline substitutes when the analysis gave nothing.
DefaultConcept ==
    [k |-> "dict", category |-> "SANGPUM", colors |-> ColorList(<<White>>),
     background_concept |-> "MINIMAL_WHITE_BACKGROUND"]

NoImage == [w |-> 0, h |-> 0]

NoRet == [k |-> "pending", data |-> [mime |-> "none", w |-> 0, h |-> 0], err |-> NoErr]

\* return (None, message)
ReturnError(m) == [k |-> "returned", data |-> NoRet.data, err |-> m]

\* an exception leaves run_pipeline
Raised == [k |-> "raised", data |-> NoRet.data, err |-> NoErr]

(***************************************************************************)
(* Inputs                                                                  *)
(***************************************************************************)

Hosts == {"smartstore", "m.smartstore", "other"}

\* The url argument: does it start with http:// or https://, which host it
\* names, and whether its path holds /products/<digits> (the retailer's
\* product pages do).
InputUrls ==
    {u \in [http : BOOLEAN, host : Hosts, pid : BOOLEAN] :
        /\ (~u.http) => u.host = "other"
        /\ u.pid <=> (u.http /\ u.host # "other")}

HttpUrls == {u \in InputUrls : u.http}

\* The url of the runs of the whole pipeline: none the resolver takes, or a
\* product page of the retailer's desktop site.
PipelineUrls == {u \in InputUrls : (~u.http) \/ u.host = "smartstore"}

\* The image_url argument: absent, an http(s) URL (on the retailer's CDN or
\* not), or a local path that is a readable file, an empty file, an
\* unreadable file or no file at all.
ImageUrlKinds ==
    {"absent", "http", "http_naver", "file", "emptyfile", "unreadable", "missing"}

\* Optional dependencies found at import time (HAS_* flags).  rembg itself
\* imports Pillow, so HAS_REMBG without HAS_PIL is not an installation the
\* module can be loaded in.
Envs ==
    {e \in [HAS_HTTPX : BOOLEAN, HAS_PLAYWRIGHT : BOOLEAN, HAS_UC : BOOLEAN,
            HAS_REMBG : BOOLEAN, HAS_PIL : BOOLEAN] :
        e.HAS_REMBG => e.HAS_PIL}

\* The runs of the whole pipeline have both browsers installed.
PipelineEnvs == {e \in Envs : e.HAS_PLAYWRIGHT /\ e.HAS_UC}

\* The calls of the resolver alone have the image libraries installed.
ScrapeEnvs == {e \in Envs : e.HAS_REMBG /\ e.HAS_PIL}

\* (naver_client_id, naver_client_secret): which of the two is non-empty.
Credentials == {<<TRUE, TRUE>>, <<TRUE, FALSE>>, <<FALSE, FALSE>>}

\* What one strategy of the resolver met: a page or API answer holding an
\* image URL (with or without a title), one holding none, an exception, or an
\* expired timeout.
ScrapeOutcomes ==
    {o \in [k : {"found", "none", "exc", "timeout"}, title : BOOLEAN, naver : BOOLEAN] :
        o.k # "found" => (~o.title /\ ~o.naver)}

NoOutcome == [k |-> "none", title |-> FALSE, naver |-> FALSE]

(***************************************************************************)
(* Documents handed to _extract_image_from_html                             *)
(***************************************************************************)

\* A URL text found in a document: whether it has leading blanks, whether
\* "http" follows them, whether its slashes are escaped ("\/"), the host it
\* names ("shop-phinf" for shop-phinf.pstatic.net, "pstatic" for another
\* pstatic.net host), whether it ends in .jpg, .jpeg, .png or .webp, and the
\* characters of its path.
Link(pad, http, esc, host, ext, path) ==
    [pad |-> pad, http |-> http, esc |-> esc, host |-> host, ext |-> ext, path |-> path]

\* Python None for a URL, and for a regex that did not match.
NoLink == Link(FALSE, FALSE, FALSE, "None", FALSE, <<>>)

PathMain == <<"m", "a", "i", "n">>

PathLogo == <<"L", "O", "G", "O">>

PathBanner == <<"B", "a", "n", "n", "e", "r">>

PathUpload == <<"u", "p", "l", "o", "a", "d">>

PhinfJpg == Link(FALSE, TRUE, FALSE, "shop-phinf", TRUE, PathMain)

PhinfEscaped == Link(FALSE, TRUE, TRUE, "shop-phinf", TRUE, PathMain)

PhinfLogoEscaped == Link(FALSE, TRUE, TRUE, "shop-phinf", TRUE, PathLogo)

PstaticPng == Link(FALSE, TRUE, FALSE, "pstatic", TRUE, PathMain)

PstaticBanner == Link(FALSE, TRUE, FALSE, "pstatic", TRUE, PathBanner)

OtherJpg == Link(FALSE, TRUE, FALSE, "other", TRUE, PathMain)

OtherUpload == Link(FALSE, TRUE, FALSE, "other", TRUE, PathUpload)

OtherPadded == Link(TRUE, TRUE, FALSE, "other", TRUE, PathMain)

Relative == Link(FALSE, FALSE, FALSE, "other", TRUE, PathMain)

\* One piece of markup carrying a URL: a <meta property="og:image"> tag, an
\* <img> tag with the representative-image alt text, any other tag with a quoted URL, a JSON field
\* "imageUrl" or "image", or a data-src attribute.
Element(kind, u) == [kind |-> kind, url |-> u]

Elements ==
    {Element("og_image", u) : u \in {OtherJpg, OtherPadded, Relative}}
      \cup {Element("alt_img", u) : u \in {OtherJpg, OtherPadded}}
      \cup {Element("tag", u) : u \in {PhinfJpg, PstaticPng, PstaticBanner}}
      \cup {Element("imageUrl", u) : u \in {PhinfEscaped, PhinfLogoEscaped}}
      \cup {Element("image", u) : u \in {PhinfEscaped, OtherJpg, OtherUpload}}
      \cup {Element("data_src", u) : u \in {OtherJpg}}

MaxElements == 2

\* len(html) < 500
MinLength == 500

\* A document: its length in characters, whether it holds one of the error
\* page markers, whether it has an og:title tag, and its URL-carrying markup
\* in document order.
Document(len, marker, hasTitle, els) ==
    [len |-> len, marker |-> marker, title |-> hasTitle, els |-> els]

NoHtml == Document(0, FALSE, FALSE, <<>>)

Documents ==
    {NoHtml} \cup
    {Document(n, m, t, s) :
        n \in {MinLength - 1, MinLength}, m \in BOOLEAN, t \in BOOLEAN,
        s \in UNION {[1..k -> Elements] : k \in 0..MaxElements}}

\* The documents of the calls made between the two calls under study.
OtherDocuments ==
    {Document(MinLength, FALSE, TRUE, <<Element("og_image", OtherJpg)>>)}

\* A cutout before compositing: its size and the alpha value of one pixel.
Pixel(w, h, a) == [w |-> w, h |-> h, a |-> a]

NoPixel == Pixel(0, 0, 0)

\* The cutout as pasted: its scaled size, its offsets, its refined alpha.
\* done: composite_thumbnail has run; ok: it pasted the cutout.
NotPainted ==
    [done |-> FALSE, ok |-> FALSE, nw |-> 0, nh |-> 0, x |-> 0, y |-> 0, a |-> 0]

(***************************************************************************)
(* The session cache of the local cutout engine                             *)
(***************************************************************************)

\* Threads of asyncio.to_thread that run _local at the same time.
MaxWorkers == 2

Workers == 1..MaxWorkers

\* models, for REMBG_QUALITY "high"
Models == <<"bria-rmbg", "birefnet-general", "isnet-general-use", "u2net">>

\* _REMBG_SESSION = None, and the return value None
NoSession == [by |-> 0, model |-> "None"]

\* The object rembg_new_session(model) returned to thread t.
Session(t, model) == [by |-> t, model |-> model]

\* models, for REMBG_QUALITY "balanced" and "low"
LightModels == <<"isnet-general-use", "u2net", "bria-rmbg">>

\* Values of REMBG_QUALITY, lower-cased.
Qualities == {"high", "balanced", "low"}

\* A mutant of ModelsFor: one list for every profile.
ModelsForAnyProfile(quality) == Models

\* Lines 433-437: the list of models of a profile.
ModelsFor(quality) == IF quality \in {"balanced", "low"} THEN LightModels ELSE Models

\* A thread in its call of _get_rembg_session: where it is, the profile it
\* read, the index of the model it is at, what it found in the global at
\* line 429, the models it has tried, and what it returned.
Caller(at, quality, model, saw, tried, got) ==
    [pc |-> at, quality |-> quality, model |-> model, saw |-> saw, tried |-> tried,
     got |-> got]

\* A thread before its call of _get_rembg_session.
Outside == Caller("outside", "high", 0, NoSession, <<>>, NoSession)

(***************************************************************************)
(* post_to_youtube and its temporary file                                   *)
(***************************************************************************)

\* Calls of post_to_youtube made one after the other.
MaxPosts == 2

\* tmp_path = None
NoPath == 0

\* The video_url argument: empty, not starting with http, or an http URL.
VideoUrls == {"empty", "nothttp", "http"}

\* The n-th call of post_to_youtube at its first line: video_url, whether
\* refresh_token is non-empty, and the locals tmp_path, dl, start and up
\* still unset; raised tells that an exception is on its way out.
\* Access tokens are numbered: StoredToken is the one the connection was
\* saved with, k the one the k-th successful refresh gave; NoToken stands
\* for a key new_access_token that is not there.
StoredToken == 100

NoToken == 0

YoutubeCall(n, video_url, refresh_token) ==
    [n |-> n, video_url |-> video_url, refresh_token |-> refresh_token,
     pc |-> IF n = 0 THEN "posted" ELSE "download",
     tmp_path |-> NoPath, dl |-> "none", start |-> "none", up |-> "none",
     refreshed |-> FALSE, raised |-> FALSE, out |-> "none",
     \* the stored connection's access_token, and how many tokens were issued
     conn_token |-> StoredToken, issued |-> 0,
     \* the argument access_token and the local it becomes
     given |-> StoredToken, access_token |-> StoredToken,
     \* the first answer of each phase, the phases that asked for a refresh,
     \* the calls of _start_resumable_upload and of _upload_resumable
     first_start |-> "none", first_up |-> "none", refreshes |-> <<>>,
     starts |-> 0, uploads |-> 0,
     \* start["new_access_token"], up["new_access_token"], out["new_access_token"]
     start_new |-> NoToken, up_new |-> NoToken, new_access_token |-> NoToken]

(***************************************************************************)
(* The schedule file and its poller                                         *)
(***************************************************************************)

\* Items in the schedule file.
MaxItems == 2

\* An item of the file: its status, whether its scheduled_at time has
\* passed, and whether it has both a connection_id and a caption.
Item(status, passed, complete) ==
    [status |-> status, passed |-> passed, complete |-> complete]

\* The poller in "await asyncio.sleep(60)".
Asleep == [pc |-> "sleep", due |-> <<>>, i |-> 0]

(***************************************************************************)
(* The connection store                                                     *)
(***************************************************************************)

\* Connections in sns_connections.json.
MaxConnections == 2

Platforms == {"facebook", "instagram", "threads", "youtube"}

\* Values of an access token and of a refresh token; youtube saves
\* refresh_token or "".
Tokens == {"token"}
RefreshTokens == Tokens \cup {""}

\* The keys of the dictionaries list_connections_public builds.
PublicKeys == {"id", "platform", "name", "page_id", "ig_user_id",
               "threads_user_id", "youtube_channel_id"}

\* The dictionary each platform's login appends to the store.
SavedConnection(id, platform, token, refresh) ==
    CASE platform = "facebook" ->
           [id |-> id, platform |-> "facebook", page_id |-> "page",
            name |-> "name", access_token |-> token]
      [] platform = "instagram" ->
           [id |-> id, platform |-> "instagram", ig_user_id |-> "ig",
            page_id |-> "page", name |-> "name", access_token |-> token]
      [] platform = "threads" ->
           [id |-> id, platform |-> "threads", threads_user_id |-> "user",
            name |-> "name", access_token |-> token]
      [] OTHER ->
           [id |-> id, platform |-> "youtube", youtube_channel_id |-> "channel",
            name |-> "name", access_token |-> token, refresh_token |-> refresh]

(***************************************************************************)
(* _replicate_remove and its polling loop                                   *)
(***************************************************************************)

\* for _ in range(60)
PollLimit == 60

\* The "status" and the "output" of a prediction document.
Statuses == {"starting", "processing", "succeeded", "failed", "canceled"}
Outputs == {"none", "http", "dict_url", "other"}

\* No call of _replicate_remove is under way.
Idle == [pc |-> "idle", n |-> 0, status |-> "none", output |-> "none", out |-> "none"]

(***************************************************************************)
(* The vendor search API step of the resolver                               *)
(***************************************************************************)

\* Items in a response of the search API.
MaxApiItems == 2

\* Where the text /products/<digits> stands in the url: in its path, in its
\* query string only, or nowhere.
ProductIdPlaces == {"path", "query", "nowhere"}

\* An item of the response: whether its productId is the one asked for, its
\* "image" (an http URL, another string, or none) and its "title" (with
\* <b> tags, without, or empty).  Every item has an image URL of its own: n
\* is the item's position.
ApiItems(n) ==
    [same : BOOLEAN, image : {[k |-> k, n |-> n] : k \in {"http", "relative", "absent"}},
     title : {"plain", "tagged", "empty"}]

RECURSIVE ItemLists(_)
\* The lists of n items.
ItemLists(n) ==
    IF n = 0 THEN {<<>>}
    ELSE {Append(l, it) : l \in ItemLists(n - 1), it \in ApiItems(n)}

\* What the GET of shop.json gives: a JSON document with its items, or an
\* exception (no answer, an error status, no JSON).
ApiResponses ==
    {[ok |-> FALSE, items |-> <<>>]}
      \cup {[ok |-> TRUE, items |-> l] : l \in UNION {ItemLists(n) : n \in 0..MaxApiItems}}

\* (None, None)
NothingFound == [image |-> [k |-> "absent", n |-> 0], title |-> "None"]

VARIABLES
    env,            \* HAS_* flags of the process
    url,            \* argument url
    image_url,      \* argument image_url
    replicate_token,\* argument replicate_token is non-empty
    naver_creds,    \* arguments naver_client_id, naver_client_secret
    on_progress,    \* argument on_progress is given
    pc,             \* position of run_pipeline
    frames,         \* call stack of scrape_naver_product: <<outer>> or <<outer, mobile>>
    sret,           \* value a finished scrape_naver_product call hands to its awaiter
    img_url, title, img_bytes,
    product_png, rembg_err,
    concept, bg_png, final,
    ret,            \* what run_pipeline returned, or that it raised
    progress,       \* values passed to on_progress so far
    attempts,       \* resolver strategies attempted so far, in order
    stages,         \* pipeline stages invoked so far, in order
    last,           \* the step just taken: what it met and what it called
    html,           \* argument of the _extract_image_from_html calls under study
    answers,        \* what the calls on html returned so far, in order
    between,        \* what the calls on other documents returned so far
    pixel,          \* a cutout handed to composite_thumbnail: its size, one alpha value
    painted,        \* what composite_thumbnail made of pixel
    REMBG_SESSION,  \* the module global _REMBG_SESSION
    callers,        \* the threads inside _get_rembg_session: where each one is
    stored,         \* the sessions assigned to _REMBG_SESSION so far, in order
    tmpfiles,       \* the temporary files that exist on disk
    yt,             \* the call of post_to_youtube: its arguments, position and locals
    schedule,       \* the items of sns_schedule.json, in file order
    poller,         \* _run_scheduled_posts: its position, the list due and the index in it
    connections,    \* the dictionaries of sns_connections.json, in file order
    listing,        \* what the call of list_connections_public just made returned
    search,         \* step 4 of scrape_naver_product: its inputs, the API response, the result
    poll,           \* the call of _replicate_remove: its position, polls made, last document
    jobs,           \* SHOPPING_JOBS and the task of each job: where _run_shopping_job is
    queue,          \* sns_schedule.json under requests: items with their ids, clock, poller
    writers         \* the login in flight on sns_connections.json and what it loaded

vars == <<env, url, image_url, replicate_token, naver_creds, on_progress, pc,
          frames, sret, img_url, title, img_bytes, product_png, rembg_err,
          concept, bg_png, final, ret, progress, attempts, stages, last,
          html, answers, between, pixel, painted,
          REMBG_SESSION, callers, stored, tmpfiles, yt, schedule, poller,
          connections, listing, poll, search,
          jobs, queue, writers>>

\* The variables of the studies of single functions; a run of run_pipeline
\* leaves them alone.
study == <<html, answers, between, pixel, painted, REMBG_SESSION, callers, stored,
           tmpfiles, yt, schedule, poller, connections, listing, poll, search,
          jobs, queue, writers>>

\* The variables of the studies of the services around the pipeline.
services == <<REMBG_SESSION, callers, stored, tmpfiles, yt, schedule, poller,
              connections, listing, poll, search,
          jobs, queue, writers>>

\* The thumbnail jobs, the schedule under requests and the logins in flight.
tasks == <<jobs, queue, writers>>

\* The connection store and the listing made of it.
accounts == <<connections, listing>>

\* The schedule file and the poller task.
posts == <<schedule, poller>>

\* The session cache and its callers.
sessions == <<REMBG_SESSION, callers, stored>>

\* The temporary files on disk and the call of post_to_youtube.
uploads == <<tmpfiles, yt>>

\* The variables of a call of run_pipeline apart from its arguments.
run == <<pc, frames, sret, img_url, title, img_bytes, product_png, rembg_err,
         concept, bg_png, final, ret, progress, attempts, stages, last>>

inputs == <<env, url, image_url, replicate_token, naver_creds, on_progress>>

Step(act, out) == [act |-> act, out |-> out, d |-> 0, o |-> NoOutcome, calls |-> <<>>, out2 |-> "none"]

ScrapeStep(act, out, d, o) == [act |-> act, out |-> out, d |-> d, o |-> o, calls |-> <<>>, out2 |-> "none"]

RemoteStep(out, calls) == [act |-> "remote", out |-> out, d |-> 0, o |-> NoOutcome, calls |-> calls, out2 |-> "none"]

NoScrapeReturn == [ctl |-> "none", url |-> NoUrl, title |-> NoTitle]

FirstFrame(u) == [url |-> u, pc |-> "httpx", i |-> 1]

Locals ==
    /\ sret = NoScrapeReturn
    /\ img_url = NoUrl
    /\ title = NoTitle
    /\ img_bytes = NoBytes
    /\ product_png = NoBytes
    /\ rembg_err = NoErr
    /\ concept = NoConcept
    /\ bg_png = NoBytes
    /\ final = NoImage
    /\ ret = NoRet
    /\ attempts = <<>>
    /\ last = Step("call", "none")

\* No single function is under study.
\* No call of run_pipeline is under way: the process has every optional
\* package.
NoRun ==
    /\ env = [HAS_HTTPX |-> TRUE, HAS_PLAYWRIGHT |-> TRUE, HAS_UC |-> TRUE,
              HAS_REMBG |-> TRUE, HAS_PIL |-> TRUE]
    /\ image_url = "absent"
    /\ url \in {u \in HttpUrls : u.host = "other"}
    /\ naver_creds = <<FALSE, FALSE>>
    /\ replicate_token = FALSE
    /\ on_progress = FALSE
    /\ frames = <<>>
    /\ progress = <<>>
    /\ stages = <<>>
    /\ Locals

NoSessions ==
    /\ REMBG_SESSION = NoSession
    /\ callers = [t \in Workers |-> Outside]
    /\ stored = <<>>

\* No call of post_to_youtube has been made.
NoUploads ==
    /\ tmpfiles = {}
    /\ yt = YoutubeCall(0, "none", FALSE)

\* An empty schedule file, the poller asleep.
NoPosts ==
    /\ schedule = <<>>
    /\ poller = Asleep

\* An empty connection store, nothing listed.
NoAccounts ==
    /\ connections = <<>>
    /\ listing = <<>>

\* The thumbnail jobs the model follows.
MaxJobs == 2

\* A key of SHOPPING_JOBS that is not there.  A stored job carries the fields
\* of ShoppingThumbnailJob (None is "None"); task is where its
\* _run_shopping_job task stands, real is use_real_pipeline, reported counts
\* the on_progress calls made, response is what the result endpoint answered
\* to the request just made for the job.
NoJob ==
    [status |-> "absent", progress |-> 0, result_data_url |-> "None", error |-> "None",
     task |-> "none", real |-> FALSE, reported |-> 0, response |-> "none"]

NoJobs == jobs = [j \in 1..MaxJobs |-> NoJob]

\* Requests POST /api/sns/schedule made, and values the millisecond clock
\* takes while they are made.
MaxAdds == 3

MaxClock == 1

\* An empty schedule file and the poller asleep.  items are the dictionaries
\* of the file, clock is int(time.time() * 1000), adds counts the requests
\* that added an item, published[k] counts the publish calls that answered
\* ok for the item the k-th request added.
EmptyQueue ==
    [items |-> <<>>, clock |-> 0, adds |-> 0,
     poller |-> [pc |-> "sleep", due |-> <<>>, i |-> 1],
     published |-> <<>>]

NoQueue == queue = EmptyQueue

\* Connection ids made by uuid4() in all.
MaxUuids == 3

\* No exchange_facebook_code in flight.  loaded is its local list
\* connections, uuids counts the ids made so far, added holds the ids of the
\* connections whose login saved them, removed the ids disconnect_connection
\* removed.
NoLogin ==
    [pc |-> "none", loaded |-> <<>>, uuids |-> 0, added |-> {}, removed |-> {}]

NoWriters == writers = NoLogin

NoTasks == NoJobs /\ NoQueue /\ NoWriters

NoPolling == poll = Idle

\* No call of the vendor API step under study.
NoSearch ==
    search = [pc |-> "none", creds |-> <<FALSE, FALSE>>, pid |-> "nowhere",
              has_httpx |-> FALSE, response |-> [ok |-> FALSE, items |-> <<>>],
              called |-> FALSE, queried |-> FALSE, result |-> NothingFound]

NoServices ==
    /\ NoSessions /\ NoUploads /\ NoPosts /\ NoAccounts /\ NoPolling /\ NoSearch
    /\ NoTasks

NoStudy ==
    /\ html = NoHtml
    /\ answers = <<>>
    /\ between = <<>>
    /\ pixel = NoPixel
    /\ painted = NotPainted
    /\ NoServices

\* A call of run_pipeline.  When image_url is given, url and the vendor
\* credentials are never read: they are then one fixed product page.
Init ==
    /\ env \in PipelineEnvs
    /\ image_url \in ImageUrlKinds
    /\ url \in IF image_url = "absent" THEN PipelineUrls
               ELSE {u \in PipelineUrls : u.http}
    /\ naver_creds = <<TRUE, TRUE>>
    /\ replicate_token \in BOOLEAN
    /\ on_progress \in BOOLEAN
    /\ pc = "p5"
    /\ frames = <<>>
    /\ progress = <<>>
    /\ stages = <<>>
    /\ Locals
    /\ NoStudy

\* A call of scrape_naver_product by run_pipeline: the state of run_pipeline
\* at its await, for every url the call is made with.
InitScrape ==
    /\ env \in ScrapeEnvs
    /\ image_url = "absent"
    /\ url \in HttpUrls
    /\ naver_creds \in Credentials
    /\ replicate_token = TRUE
    /\ on_progress \in BOOLEAN
    /\ pc = "scrape"
    /\ frames = <<FirstFrame(url)>>
    /\ progress = IF on_progress THEN <<5>> ELSE <<>>
    /\ stages = <<"resolve">>
    /\ Locals
    /\ NoStudy

(***************************************************************************)
(* on_progress(step, value) at the stage boundaries of run_pipeline         *)
(***************************************************************************)

ProgressPoints == {"p5", "p20", "p40", "p60", "p85", "p100"}

ProgressValue(p) ==
    CASE p = "p5" -> 5 [] p = "p20" -> 20 [] p = "p40" -> 40
      [] p = "p60" -> 60 [] p = "p85" -> 85 [] p = "p100" -> 100

AfterProgress(p) ==
    CASE p = "p5" -> "source" [] p = "p20" -> "local" [] p = "p40" -> "analyze"
      [] p = "p60" -> "background" [] p = "p85" -> "composite" [] p = "p100" -> "finish"

\* "if on_progress: on_progress(step, value)": the call is not guarded, so an
\* exception of the sink leaves run_pipeline.
Progress ==
    /\ pc \in ProgressPoints
    /\ IF on_progress
         THEN \E sinkRaises \in BOOLEAN :
                /\ progress' = Append(progress, ProgressValue(pc))
                /\ IF sinkRaises
                     THEN /\ ret' = Raised
                          /\ pc' = "done"
                          /\ last' = Step("progress", "exc")
                     ELSE /\ ret' = ret
                          /\ pc' = AfterProgress(pc)
                          /\ last' = Step("progress", "ok")
         ELSE /\ progress' = progress
              /\ ret' = ret
              /\ pc' = AfterProgress(pc)
              /\ last' = Step("progress", "skip")
    /\ UNCHANGED <<inputs, study, frames, sret, img_url, title, img_bytes, product_png,
                   rembg_err, concept, bg_png, final, attempts, stages>>

(***************************************************************************)
(* Stage 1: the image source (image_url, local file, or the resolver)       *)
(***************************************************************************)

ImageUrlNeverHttp(iu) == FALSE

\* raw.startswith("http://") or raw.startswith("https://")
ImageUrlIsHttp(iu) == iu \in {"http", "http_naver"}

\* p.exists() and p.is_file(), then p.read_bytes() with its exception
\* swallowed: the bytes read, b"" for an empty file, None otherwise.
ReadLocalFile(iu) ==
    CASE iu = "file" -> Bytes("file")
      [] iu = "emptyfile" -> EmptyBytes
      [] OTHER -> NoBytes

NotFound == Msg("NOT_FOUND")

\* Lines 846-872 up to the await of the resolver.
Source ==
    /\ pc = "source"
    /\ LET iu == image_url
           given == iu # "absent"
           url1 == IF given /\ ImageUrlIsHttp(iu)
                     THEN ImageUrl("user", iu = "http_naver")
                     ELSE NoUrl
           bytes1 == IF given /\ ~ImageUrlIsHttp(iu) THEN ReadLocalFile(iu) ELSE NoBytes
       IN IF given /\ ~ImageUrlIsHttp(iu) /\ ~Truthy(bytes1)
            THEN \* "if not img_bytes": no usable local file
                 /\ ret' = ReturnError(Msg("NEED_IMAGE_URL_OR_FILE"))
                 /\ pc' = "done"
                 /\ last' = Step("source", "badfile")
                 /\ UNCHANGED <<img_url, img_bytes, frames, stages>>
            ELSE IF url1 = NoUrl /\ ~Truthy(bytes1)
              THEN IF url.http
                     THEN \* await wait_for(scrape_naver_product(...), 50.0)
                          /\ frames' = <<FirstFrame(url)>>
                          /\ stages' = Append(stages, "resolve")
                          /\ pc' = "scrape"
                          /\ last' = Step("source", "scrape")
                          /\ UNCHANGED <<img_url, img_bytes, ret>>
                     ELSE \* "if not img_url"
                          /\ ret' = ReturnError(NotFound)
                          /\ pc' = "done"
                          /\ last' = Step("source", "nourl")
                          /\ UNCHANGED <<img_url, img_bytes, frames, stages>>
              ELSE /\ img_url' = url1
                   /\ img_bytes' = bytes1
                   /\ pc' = "p20"
                   /\ last' = Step("source", "given")
                   /\ UNCHANGED <<frames, stages, ret>>
    /\ UNCHANGED <<inputs, study, sret, title, product_png, rembg_err, concept, bg_png,
                   final, progress, attempts>>

(***************************************************************************)
(* scrape_naver_product: the resolver's strategy chain                      *)
(***************************************************************************)

\* A mutant of IsSmartstoreDesktop: the mobile variant is retried as well.
IsSmartstoreAnyVariant(u) == u.host \in {"smartstore", "m.smartstore"}

\* "smartstore.naver.com" in url and "m.smartstore" not in url
IsSmartstoreDesktop(u) ==
    u.host \in {"smartstore", "m.smartstore"} /\ u.host # "m.smartstore"

\* url.replace("smartstore.naver.com", "m.smartstore.naver.com")
MobileUrl(u) ==
    IF u.host = "smartstore" THEN [u EXCEPT !.host = "m.smartstore"] ELSE u

\* urls_to_try: the mobile variant is inserted in front
UrlsToTry(u) == IF IsSmartstoreDesktop(u) THEN <<MobileUrl(u), u>> ELSE <<u>>

\* The (url, title) pair a strategy returns when it found an image.
Candidate(o) ==
    [ctl |-> "return",
     url |-> ImageUrl("scraped", o.naver),
     title |-> IF o.title THEN SomeTitle ELSE NoTitle]

\* The strategy gave nothing: the chain goes on.
NoCandidate == [ctl |-> "next", url |-> NoUrl, title |-> NoTitle]

\* An exception leaves the call.
Propagate == [ctl |-> "raise", url |-> NoUrl, title |-> NoTitle]

\* return (None, None)
ReturnNone == [ctl |-> "return", url |-> NoUrl, title |-> NoTitle]

\* Step 0, one try_url: get, raise_for_status, _extract_image_from_html,
\* "if img and img.startswith('http'): return"; "except Exception: pass"
\* around all of it.
HttpxAttempt(o) == IF o.k = "found" THEN Candidate(o) ELSE NoCandidate

PlaywrightAttemptUnguarded(o) ==
    IF o.k = "found" THEN Candidate(o)
    ELSE IF o.k \in {"exc", "timeout"} THEN Propagate
    ELSE NoCandidate

\* Step 1: the whole Playwright block sits in "try ... except Exception: pass".
PlaywrightAttempt(o) == IF o.k = "found" THEN Candidate(o) ELSE NoCandidate

UcAttemptDropsResult(o) == NoCandidate

\* Step 2: _scrape_with_uc swallows its exceptions and returns (None, None);
\* the to_thread call is wrapped once more; "if result[0]: return result".
UcAttempt(o) == IF o.k = "found" THEN Candidate(o) ELSE NoCandidate

\* Step 4: _try_naver_search_api returns (None, None) without httpx and on
\* any exception; "if result[0]: return result".
ApiAttempt(o, hasHttpx) ==
    IF hasHttpx /\ o.k = "found" THEN Candidate(o) ELSE NoCandidate

\* naver_client_id and naver_client_secret, and re.search("/products/(\d+)", url)
ApiApplicable(creds, u) == creds[1] /\ creds[2] /\ u.pid

Top == frames[Len(frames)]

Depth == Len(frames) - 1

SetTop(f) == [frames EXCEPT ![Len(frames)] = f]

Attempt(s) == [s |-> s, d |-> Depth, host |-> Top.url.host]

\* What a strategy's result does to the running call: return the pair, let
\* an exception out, or go on with the next step.
Continue(r, nextFrame) ==
    IF r.ctl = "next"
      THEN /\ frames' = SetTop(nextFrame)
           /\ sret' = sret
      ELSE /\ frames' = SetTop([Top EXCEPT !.pc = "ret"])
           /\ sret' = r

ScrapeUnchanged ==
    UNCHANGED <<inputs, study, pc, img_url, title, img_bytes, product_png, rembg_err,
                concept, bg_png, final, ret, progress, stages>>

ScrapeHttpx ==
    /\ pc = "scrape" /\ frames # <<>> /\ Top.pc = "httpx"
    /\ IF env.HAS_HTTPX
         THEN \E o \in ScrapeOutcomes :
                LET tryUrls == UrlsToTry(Top.url)
                    nextFrame == IF Top.i < Len(tryUrls)
                                   THEN [Top EXCEPT !.i = Top.i + 1]
                                   ELSE [Top EXCEPT !.pc = "playwright"]
                IN /\ attempts' = Append(attempts,
                                    [s |-> "httpx", d |-> Depth, host |-> tryUrls[Top.i].host])
                   /\ Continue(HttpxAttempt(o), nextFrame)
                   /\ last' = ScrapeStep("httpx", o.k, Depth, o)
         ELSE /\ frames' = SetTop([Top EXCEPT !.pc = "playwright"])
              /\ last' = ScrapeStep("httpx", "skip", Depth, NoOutcome)
              /\ UNCHANGED <<attempts, sret>>
    /\ ScrapeUnchanged

ScrapePlaywright ==
    /\ pc = "scrape" /\ frames # <<>> /\ Top.pc = "playwright"
    /\ IF env.HAS_PLAYWRIGHT
         THEN \E o \in ScrapeOutcomes :
                /\ attempts' = Append(attempts, Attempt("playwright"))
                /\ Continue(PlaywrightAttempt(o), [Top EXCEPT !.pc = "uc"])
                /\ last' = ScrapeStep("playwright", o.k, Depth, o)
         ELSE /\ frames' = SetTop([Top EXCEPT !.pc = "uc"])
              /\ last' = ScrapeStep("playwright", "skip", Depth, NoOutcome)
              /\ UNCHANGED <<attempts, sret>>
    /\ ScrapeUnchanged

ScrapeUc ==
    /\ pc = "scrape" /\ frames # <<>> /\ Top.pc = "uc"
    /\ IF env.HAS_UC
         THEN \E o \in ScrapeOutcomes :
                /\ attempts' = Append(attempts, Attempt("uc"))
                /\ Continue(UcAttempt(o), [Top EXCEPT !.pc = "mobile"])
                /\ last' = ScrapeStep("uc", o.k, Depth, o)
         ELSE /\ frames' = SetTop([Top EXCEPT !.pc = "mobile"])
              /\ last' = ScrapeStep("uc", "skip", Depth, NoOutcome)
              /\ UNCHANGED <<attempts, sret>>
    /\ ScrapeUnchanged

\* Step 3: await wait_for(scrape_naver_product(mobile_url, ...), 12.0)
ScrapeMobile ==
    /\ pc = "scrape" /\ frames # <<>> /\ Top.pc = "mobile"
    /\ IF IsSmartstoreDesktop(Top.url)
         THEN /\ attempts' = Append(attempts, Attempt("mobile"))
              /\ frames' = Append(SetTop([Top EXCEPT !.pc = "await_mobile"]),
                                  FirstFrame(MobileUrl(Top.url)))
              /\ last' = ScrapeStep("mobile", "call", Depth, NoOutcome)
         ELSE /\ frames' = SetTop([Top EXCEPT !.pc = "api"])
              /\ last' = ScrapeStep("mobile", "skip", Depth, NoOutcome)
              /\ UNCHANGED attempts
    /\ UNCHANGED sret
    /\ ScrapeUnchanged

\* Step 4 and the final "return (None, None)"
ScrapeApi ==
    /\ pc = "scrape" /\ frames # <<>> /\ Top.pc = "api"
    /\ IF ApiApplicable(naver_creds, Top.url)
         THEN \E o \in IF env.HAS_HTTPX THEN ScrapeOutcomes ELSE {NoOutcome} :
                LET r == ApiAttempt(o, env.HAS_HTTPX)
                IN /\ attempts' = Append(attempts, Attempt("api"))
                   /\ sret' = IF r.ctl = "next" THEN ReturnNone ELSE r
                   /\ last' = ScrapeStep("api", o.k, Depth, o)
         ELSE /\ sret' = ReturnNone
              /\ last' = ScrapeStep("api", "skip", Depth, NoOutcome)
              /\ UNCHANGED attempts
    /\ frames' = SetTop([Top EXCEPT !.pc = "ret"])
    /\ ScrapeUnchanged

\* Step 3 after the await: "if result[0]: return result"; only
\* asyncio.TimeoutError is caught, any other exception of the inner call
\* leaves the outer call as well.
MobileResult(r) ==
    IF r.ctl = "raise" THEN Propagate
    ELSE IF r.url # NoUrl THEN r
    ELSE NoCandidate

\* The recursive call has returned within its 12 seconds.
ScrapeMobileReturn ==
    /\ pc = "scrape" /\ Len(frames) = 2 /\ Top.pc = "ret"
    /\ LET r == MobileResult(sret)
       IN /\ frames' = <<[frames[1] EXCEPT !.pc = IF r.ctl = "next" THEN "api" ELSE "ret"]>>
          /\ sret' = IF r.ctl = "next" THEN sret ELSE r
          /\ last' = ScrapeStep("mobile",
                                IF r.ctl = "next" THEN "none"
                                ELSE IF r.ctl = "raise" THEN "exc" ELSE "found",
                                0, last.o)
    /\ UNCHANGED attempts
    /\ ScrapeUnchanged

MobileTimeoutEndsCall == "ret"

\* What the outer call does when the 12-second wait_for expires:
\* "except asyncio.TimeoutError: pass", then step 4.
MobileTimeoutTarget == "api"

\* asyncio.TimeoutError of the 12-second wait_for: the recursive call is
\* cancelled wherever it is.
ScrapeMobileTimeout ==
    /\ pc = "scrape" /\ Len(frames) = 2 /\ Top.pc # "ret"
    /\ frames' = <<[frames[1] EXCEPT !.pc = MobileTimeoutTarget]>>
    /\ last' = ScrapeStep("mobile", "timeout", 0, NoOutcome)
    /\ UNCHANGED <<attempts, sret>>
    /\ ScrapeUnchanged

\* run_pipeline after the await of the resolver: "img_url, title = ...";
\* "if not img_url: return (None, ...)".  Only asyncio.TimeoutError is caught
\* around the await.
ScrapeDone ==
    /\ pc = "scrape" /\ Len(frames) = 1 /\ Top.pc = "ret"
    /\ frames' = <<>>
    /\ IF sret.ctl = "raise"
         THEN /\ ret' = Raised
              /\ pc' = "done"
              /\ last' = Step("resolver", "exc")
              /\ UNCHANGED <<img_url, title>>
         ELSE /\ img_url' = sret.url
              /\ title' = sret.title
              /\ IF sret.url = NoUrl
                   THEN /\ ret' = ReturnError(NotFound)
                        /\ pc' = "done"
                        /\ last' = Step("resolver", "none")
                   ELSE /\ ret' = ret
                        /\ pc' = "p20"
                        /\ last' = Step("resolver", "found")
    /\ UNCHANGED <<inputs, study, sret, img_bytes, product_png, rembg_err, concept,
                   bg_png, final, progress, attempts, stages>>

\* What run_pipeline does when its 50-second wait_for expires:
\* "except asyncio.TimeoutError: img_url, title = None, None", and then
\* "if not img_url: return (None, ...)".
ResolverTimeoutResult == ReturnError(NotFound)

\* asyncio.TimeoutError of the 50-second wait_for around the whole resolver:
\* the resolver (and a running mobile retry) is cancelled wherever it is.
ResolverTimeout ==
    /\ pc = "scrape" /\ frames # <<>> /\ frames[1].pc # "ret"
    /\ frames' = <<>>
    /\ img_url' = NoUrl
    /\ title' = NoTitle
    /\ ret' = ResolverTimeoutResult
    /\ pc' = "done"
    /\ last' = Step("resolver", "timeout")
    /\ UNCHANGED <<inputs, study, sret, img_bytes, product_png, rembg_err, concept,
                   bg_png, final, progress, attempts, stages>>

(***************************************************************************)
(* Stage 2: the cutout (local rembg first, then the remote service)         *)
(***************************************************************************)

\* A (bytes, error message) pair as the cutout functions return it.
Pair(png, err) == [png |-> png, err |-> err]

\* What an image download met.
DownloadOutcomes == {"data", "empty", "exc", "timeout"}

\* _download_image_bytes / _download_image_for_replicate: the content, or
\* None without httpx and on any exception (a timeout is one).
DownloadImageBytes(hasHttpx, o) ==
    IF ~hasHttpx THEN NoBytes
    ELSE CASE o = "data" -> Bytes("download")
           [] o = "empty" -> EmptyBytes
           [] OTHER -> NoBytes

\* What the local inference met: a cutout, bytes that do not decode (or any
\* other exception), or onnxruntime missing at call time.
LocalOutcomes == {"ok", "corrupt", "no_onnxruntime"}

\* remove_background_local
RemoveBackgroundLocal(e, raw, o) ==
    IF ~e.HAS_REMBG \/ ~e.HAS_PIL THEN Pair(NoBytes, Msg("REMBG_OR_PILLOW_MISSING"))
    ELSE CASE o = "ok" -> Pair(Bytes("local"), NoErr)
           [] o = "no_onnxruntime" -> Pair(NoBytes, Msg("ONNXRUNTIME_MISSING"))
           [] OTHER -> Pair(NoBytes, Msg("LOCAL_CUTOUT_FAILED"))

\* run_pipeline._local
LocalCutout(e, bytes, u, dl, o) ==
    LET raw == IF Truthy(bytes) THEN bytes ELSE DownloadImageBytes(e.HAS_HTTPX, dl)
    IN IF Truthy(raw)
         THEN RemoveBackgroundLocal(e, raw, o)
         ELSE Pair(NoBytes, IF u # NoUrl THEN Msg("IMAGE_DOWNLOAD_FAILED")
                                          ELSE Msg("LOCAL_FILE_READ_FAILED"))

\* "if HAS_REMBG: product_png, rembg_err = await asyncio.to_thread(_local)"
LocalApplicable(e) == e.HAS_REMBG

Local ==
    /\ pc = "local"
    /\ IF LocalApplicable(env)
         THEN LET downloads == ~Truthy(img_bytes) /\ env.HAS_HTTPX
              IN \E dl \in IF downloads THEN DownloadOutcomes ELSE {"exc"} :
                   LET raw == IF Truthy(img_bytes) THEN img_bytes
                              ELSE DownloadImageBytes(env.HAS_HTTPX, dl)
                   IN \E o \in IF Truthy(raw) THEN LocalOutcomes ELSE {"corrupt"} :
                        LET r == LocalCutout(env, img_bytes, img_url, dl, o)
                        IN /\ product_png' = r.png
                           /\ rembg_err' = r.err
                           /\ stages' = Append(stages, "cutout_local")
                           /\ last' = Step("local",
                                           IF Truthy(r.png) THEN "ok"
                                           ELSE IF downloads /\ dl = "timeout" THEN "timeout"
                                           ELSE "failed")
         ELSE /\ last' = Step("local", "skip")
              /\ UNCHANGED <<product_png, rembg_err, stages>>
    /\ pc' = "remote"
    /\ UNCHANGED <<inputs, study, frames, sret, img_url, title, img_bytes, concept,
                   bg_png, final, ret, progress, attempts>>

\* What one POST to the remote service (with its polling and the download of
\* the output) met.
RemoteResponses ==
    {"ok", "empty", "auth401", "auth403", "pay402", "http500", "failed",
     "nooutput", "timeout", "exc"}

\* _replicate_remove
ReplicateRemove(hasHttpx, resp) ==
    IF ~hasHttpx THEN Pair(NoBytes, Msg("HTTPX_MISSING"))
    ELSE CASE resp = "ok" -> Pair(Bytes("remote"), NoErr)
           [] resp = "empty" -> Pair(EmptyBytes, NoErr)
           [] resp = "auth401" -> Pair(NoBytes, MsgHttp("REPLICATE_AUTH", 401))
           [] resp = "auth403" -> Pair(NoBytes, MsgHttp("REPLICATE_AUTH", 403))
           [] resp = "pay402" -> Pair(NoBytes, MsgHttp("REPLICATE_HTTP", 402))
           [] resp = "http500" -> Pair(NoBytes, MsgHttp("REPLICATE_HTTP", 500))
           [] resp = "failed" -> Pair(NoBytes, Msg("REPLICATE_FAILED"))
           [] resp = "nooutput" -> Pair(NoBytes, Msg("REPLICATE_NO_OUTPUT"))
           [] resp = "timeout" -> Pair(NoBytes, Msg("REPLICATE_TIMEOUT"))
           [] OTHER -> Pair(NoBytes, Msg("REPLICATE_ERROR"))

\* A mutant of ReplicateFallbackResult: "err2 or err".
ReplicateFallbackSecondFirst(second, err, err2) ==
    IF Truthy(second) THEN Pair(second, NoErr) ELSE Pair(NoBytes, OrElse(err2, err))

\* The last line of remove_background_replicate:
\* "return (result, None) if result else (None, err or err2)"
ReplicateFallbackResult(second, err, err2) ==
    IF Truthy(second) THEN Pair(second, NoErr) ELSE Pair(NoBytes, OrElse(err, err2))

\* remove_background_replicate: the pair it returns and the calls it makes.
\* "if downloaded" is true of every (bytes, mime) tuple, the empty content
\* included.
RemoveBackgroundReplicate(hasHttpx, u, dl, r1, r2) ==
    IF ~hasHttpx THEN [pair |-> Pair(NoBytes, Msg("HTTPX_MISSING")), calls |-> <<>>]
    ELSE IF u.naver /\ DownloadImageBytes(hasHttpx, dl) = NoBytes
      THEN [pair |-> Pair(NoBytes, Msg("NAVER_DOWNLOAD_FAILED")),
            calls |-> <<"download">>]
    ELSE LET pre == IF u.naver THEN <<"download">> ELSE <<>>
             first == ReplicateRemove(hasHttpx, r1)
             second == ReplicateRemove(hasHttpx, r2)
         IN IF Truthy(first.png)
              THEN [pair |-> Pair(first.png, NoErr), calls |-> pre \o <<"primary">>]
              ELSE [pair |-> ReplicateFallbackResult(second.png, first.err, second.err),
                    calls |-> pre \o <<"primary", "secondary">>]

\* "if not product_png and replicate_token and img_url"
RemoteApplicable(png, token, u) == ~Truthy(png) /\ token /\ u # NoUrl

CutoutFailureNoDefault(e, token, err) ==
    IF ~e.HAS_REMBG /\ ~token THEN Msg("CUTOUT_UNAVAILABLE")
    ELSE IF err # NoErr /\ err.status = 402 THEN [err EXCEPT !.hint = "billing"]
    ELSE err

\* "return (None, rembg_err or ...)" and the two special cases before it.
CutoutFailure(e, token, err) ==
    IF ~e.HAS_REMBG /\ ~token THEN Msg("CUTOUT_UNAVAILABLE")
    ELSE IF err # NoErr /\ err.status = 402 THEN [err EXCEPT !.hint = "billing"]
    ELSE OrElse(err, Msg("CUTOUT_FAILED"))

Range(s) == {s[i] : i \in 1..Len(s)}

ProductNeverMissing(png) == FALSE

\* "if not product_png:" after both engines
ProductMissing(png) == ~Truthy(png)

\* Lines 889-899: the remote fallback and the check of the cutout.
Remote ==
    /\ pc = "remote"
    /\ LET applicable == RemoteApplicable(product_png, replicate_token, img_url)
           calling == applicable /\ env.HAS_HTTPX
       IN \E dl \in IF calling /\ img_url.naver THEN DownloadOutcomes ELSE {"data"} :
          \E r1 \in IF calling /\ ~(img_url.naver /\ dl \in {"exc", "timeout"})
                      THEN RemoteResponses ELSE {"exc"} :
          \E r2 \in IF calling /\ r1 # "ok" THEN RemoteResponses ELSE {"exc"} :
            LET r == RemoveBackgroundReplicate(env.HAS_HTTPX, img_url, dl, r1, r2)
                png == IF applicable THEN r.pair.png ELSE product_png
                err == IF applicable THEN r.pair.err ELSE rembg_err
            IN /\ product_png' = png
               /\ rembg_err' = err
               /\ stages' = IF applicable THEN Append(stages, "cutout_remote") ELSE stages
               /\ last' = IF ~applicable THEN RemoteStep("skip", <<>>)
                          ELSE IF ~env.HAS_HTTPX THEN RemoteStep("nohttpx", r.calls)
                          ELSE IF "primary" \notin Range(r.calls)
                                 THEN RemoteStep(IF dl = "timeout" THEN "timeout"
                                                 ELSE "nodownload", r.calls)
                          ELSE [RemoteStep(r1, r.calls) EXCEPT
                                  !.out2 = IF "secondary" \in Range(r.calls)
                                             THEN r2 ELSE "none"]
               /\ IF ProductMissing(png)
                    THEN /\ pc' = "done"
                         /\ ret' = ReturnError(CutoutFailure(env, replicate_token, err))
                    ELSE /\ pc' = "p40"
                         /\ ret' = ret
    /\ UNCHANGED <<inputs, study, frames, sret, img_url, title, img_bytes, concept,
                   bg_png, final, progress, attempts>>

(***************************************************************************)
(* Stage 3: concept analysis                                                *)
(***************************************************************************)

Yellow == <<"#", "f", "f", "c", "c", "0", "0">>

PaleBlue == <<"e", "8", "F", "4", "f", "8">>

Short == <<"#", "f", "f", "f">>

NotHex == <<"#", "g", "g", "0", "0", "0", "0">>

\* The core_colors values the model's answer may carry.
AnswerColors ==
    {NoColors, ColorList(<<Yellow, PaleBlue>>), ColorList(<<NotHex, Short>>),
     [k |-> "notstrings", v |-> <<>>]}

\* What the analysis request met: no response, a response without a JSON
\* object in its text, a JSON object that does not parse, the object {}, or
\* an object with keys.
AnalysisOutcomes ==
    {[k |-> x, colors |-> NoColors] : x \in {"fail", "notext", "malformed", "emptyjson"}}
      \cup {[k |-> "json", colors |-> c] : c \in AnswerColors}

\* analyze_product_gemini: the parsed object, None on every failure.
AnalyzeProductGemini(a) ==
    CASE a.k = "json" -> [k |-> "dict", category |-> "AI_CATEGORY", colors |-> a.colors,
                          background_concept |-> "AI_BACKGROUND"]
      [] a.k = "emptyjson" -> EmptyDict
      [] OTHER -> NoConcept

\* bool(concept): None and {} are falsy.
ConceptTruthy(c) == c.k = "dict"

ConceptKept(c) == c

\* "if not concept: concept = {...}"
ConceptOrDefault(c) == IF ConceptTruthy(c) THEN c ELSE DefaultConcept

Analyze ==
    /\ pc = "analyze"
    /\ \E a \in AnalysisOutcomes :
         /\ concept' = ConceptOrDefault(AnalyzeProductGemini(a))
         /\ last' = Step("analyze", a.k)
    /\ stages' = Append(stages, "analyze")
    /\ pc' = "p60"
    /\ UNCHANGED <<inputs, study, frames, sret, img_url, title, img_bytes, product_png,
                   rembg_err, bg_png, final, ret, progress, attempts>>

(***************************************************************************)
(* Stage 4: the background                                                  *)
(***************************************************************************)

CanvasSize == 1000

\* Pixel sizes of an image the generation model may return.
BgSizes == {<<1000, 1000>>, <<1408, 768>>}

\* What one generation request met: no response, a response without an image
\* part, one with an image, one whose inline data is no image.
GenerationResponses ==
    {[k |-> x, w |-> 0, h |-> 0] : x \in {"fail", "noimage", "garbage"}}
      \cup {[k |-> "image", w |-> s[1], h |-> s[2]] : s \in BgSizes}

\* generate_background_gemini: the prompt is built first (", ".join(colors[:3])
\* raises on anything but strings, and the exception gives None); the
\* secondary model is asked only "if not resp"; the first inline image
\* payload of the response in hand is returned.
GenerateBackgroundGemini(c, g1, g2) ==
    IF c.colors.k = "notstrings" THEN NoBytes
    ELSE LET resp == IF g1.k = "fail" THEN g2 ELSE g1
         IN CASE resp.k = "image" -> ImageBytes("ai", resp.w, resp.h, <<>>)
              [] resp.k = "garbage" -> Garbage("ai")
              [] OTHER -> NoBytes

PrimaryImageModel == "gemini-2.5-flash-image"

SecondaryImageModel == "gemini-3-pro-image-preview"

\* The models generate_background_gemini sends its prompt to, in order: none
\* when building the prompt raised, the secondary one only "if not resp".
ModelsAsked(c, g1) ==
    IF c.colors.k = "notstrings" THEN <<>>
    ELSE IF g1.k = "fail" THEN <<PrimaryImageModel, SecondaryImageModel>>
    ELSE <<PrimaryImageModel>>

HexLower == <<"0", "1", "2", "3", "4", "5", "6", "7", "8", "9", "a", "b", "c", "d", "e", "f">>

HexUpper == <<"0", "1", "2", "3", "4", "5", "6", "7", "8", "9", "A", "B", "C", "D", "E", "F">>

IsHex(ch) == \E i \in 1..16 : HexLower[i] = ch \/ HexUpper[i] = ch

HexValue(ch) == (CHOOSE i \in 1..16 : HexLower[i] = ch \/ HexUpper[i] = ch) - 1

\* int(h[a:a+2], 16)
HexByte(h, a) == 16 * HexValue(h[a]) + HexValue(h[a + 1])

RECURSIVE LStrip(_, _)
\* s.lstrip(chars)
LStrip(s, chars) ==
    IF s # <<>> /\ Head(s) \in chars THEN LStrip(Tail(s), chars) ELSE s

RECURSIVE RStrip(_, _)
\* s.rstrip(chars)
RStrip(s, chars) ==
    IF s # <<>> /\ s[Len(s)] \in chars THEN RStrip(SubSeq(s, 1, Len(s) - 1), chars) ELSE s

\* _parse_hex: the (r, g, b) tuple, <<>> for None.
ParseHex(c) ==
    LET h == LStrip(RStrip(LStrip(c, {" "}), {" "}), {"#"})
    IN IF Len(h) = 6 /\ \A i \in 1..6 : IsHex(h[i])
         THEN <<HexByte(h, 1), HexByte(h, 3), HexByte(h, 5)>>
         ELSE <<>>

Min(a, b) == IF a <= b THEN a ELSE b

Max(a, b) == IF a >= b THEN a ELSE b

\* colors[:3]
Take(s, n) == SubSeq(s, 1, Min(n, Len(s)))

RECURSIVE SelectParsed(_)
\* [_parse_hex(c) for c in colors if _parse_hex(str(c))]
SelectParsed(s) ==
    IF s = <<>> THEN <<>>
    ELSE IF ParseHex(Head(s)) # <<>> THEN <<ParseHex(Head(s))>> \o SelectParsed(Tail(s))
    ELSE SelectParsed(Tail(s))

\* Results _extract_dominant_colors may give for a cutout: up to two colours,
\* every channel a multiple of 16, with 30 < r + g + b < 720.
DominantSamples ==
    {<<>>, <<<<176, 96, 32>>>>, <<<<176, 96, 32>>, <<16, 16, 16>>>>,
     <<<<240, 240, 224>>, <<64, 128, 208>>>>}

\* _make_gradient_bg: the two endpoints of the gradient it renders from the
\* concept's colours or, lacking them, from the colours sampled off the cutout.
MakeGradientBg(colors, extracted) ==
    LET parsed == IF colors.k = "list" THEN SelectParsed(Take(colors.v, 3)) ELSE <<>>
        fromColors ==
            IF Len(parsed) >= 2 THEN <<parsed[1], parsed[2]>>
            ELSE IF Len(parsed) = 1
              THEN <<<<Min(255, parsed[1][1] + 60), Min(255, parsed[1][2] + 55),
                       Min(255, parsed[1][3] + 60)>>,
                     <<Max(0, parsed[1][1] - 30), Max(0, parsed[1][2] - 30),
                       Max(0, parsed[1][3] - 20)>>>>
            ELSE <<>>
        fromCutout ==
            IF Len(extracted) >= 2
              THEN <<[i \in 1..3 |-> Min(255, extracted[1][i] + 80)],
                     [i \in 1..3 |-> Max(0, extracted[2][i] - 40)]>>
            ELSE IF Len(extracted) = 1
              THEN <<<<Min(255, extracted[1][1] + 80), Min(255, extracted[1][2] + 75),
                       Min(255, extracted[1][3] + 80)>>,
                     <<Max(0, extracted[1][1] - 50), Max(0, extracted[1][2] - 50),
                       Max(0, extracted[1][3] - 40)>>>>
            ELSE <<>>
    IN IF fromColors # <<>> THEN fromColors
       ELSE IF fromCutout # <<>> THEN fromCutout
       ELSE <<<<255, 253, 255>>, <<225, 220, 238>>>>

\* The two endpoints of the gradient run_pipeline renders itself.
FallbackTop == <<252, 250, 255>>

FallbackBottom == <<240, 242, 248>>

FallbackNeedsColors(c, product) ==
    IF c.colors.k = "list" /\ SelectParsed(Take(c.colors.v, 3)) # <<>>
      THEN ImageBytes("gradient", CanvasSize, CanvasSize, <<FallbackTop, FallbackBottom>>)
      ELSE NoBytes

\* "if not bg_png and HAS_PIL": a 1000 x 1000 top-to-bottom gradient between
\* the two fixed endpoints; neither the concept nor the cutout is consulted.
FallbackBackground(c, product) ==
    ImageBytes("gradient", CanvasSize, CanvasSize, <<FallbackTop, FallbackBottom>>)

Background ==
    /\ pc = "background"
    /\ \E g1 \in IF concept.colors.k = "notstrings" THEN {[k |-> "fail", w |-> 0, h |-> 0]}
                 ELSE GenerationResponses :
       \E g2 \in IF concept.colors.k # "notstrings" /\ g1.k = "fail"
                   THEN GenerationResponses ELSE {[k |-> "fail", w |-> 0, h |-> 0]} :
         LET generated == GenerateBackgroundGemini(concept, g1, g2)
             bg == IF ~Truthy(generated) /\ env.HAS_PIL
                     THEN FallbackBackground(concept, product_png)
                     ELSE generated
         IN /\ bg_png' = bg
            /\ last' = [Step("background",
                             IF Truthy(generated) THEN "generated" ELSE "nogeneration")
                          EXCEPT !.calls = ModelsAsked(concept, g1), !.out2 = g1.k]
            /\ IF Truthy(bg)
                 THEN /\ pc' = "p85"
                      /\ ret' = ret
                 ELSE /\ pc' = "done"
                      /\ ret' = ReturnError(Msg("BACKGROUND_FAILED"))
    /\ stages' = Append(stages, "background")
    /\ UNCHANGED <<inputs, study, frames, sret, img_url, title, img_bytes, product_png,
                   rembg_err, concept, final, progress, attempts>>

(***************************************************************************)
(* Stage 5: compositing                                                     *)
(***************************************************************************)

MaxDimSteps == 5

\* Widths and heights a decoded cutout may have: 1, 500, 1000, ... pixels.
CutoutDims == {1} \cup {500 * k : k \in 1..MaxDimSteps}

\* What Image.open makes of the cutout bytes: an image of w x h, or an error.
\* The local engine's bytes were written by Pillow itself and always decode.
Decodings(png) ==
    {[ok |-> TRUE, w |-> w, h |-> h] : w \in CutoutDims, h \in CutoutDims}
      \cup (IF png.src = "local" THEN {} ELSE {[ok |-> FALSE, w |-> 0, h |-> 0]})

ScaledSideToFill(side, w, h) == (side * CanvasSize) \div Max(w, h)

\* int(side * ratio) with ratio = min(1000 / height, 1000 / width, 1.0)
ScaledSide(side, w, h) ==
    IF Max(w, h) <= CanvasSize THEN side ELSE (side * CanvasSize) \div Max(w, h)

BackgroundNotResized(bg) == [w |-> bg.w, h |-> bg.h]

\* bg.resize((1000, 1000), LANCZOS)
ResizeBackground(bg) == [w |-> CanvasSize, h |-> CanvasSize]

\* composite_thumbnail: the size of the image it encodes, NoImage for None.
\* Image.open of the background or of the cutout may raise, and so does
\* resize to a width or height of 0; "except Exception: return None".
CompositeThumbnail(hasPil, product, bg, dec) ==
    IF ~hasPil THEN NoImage
    ELSE IF bg.k # "image" THEN NoImage
    ELSE IF ~dec.ok THEN NoImage
    ELSE LET canvas == ResizeBackground(bg)
             nw == ScaledSide(dec.w, dec.w, dec.h)
             nh == ScaledSide(dec.h, dec.w, dec.h)
         IN IF nw <= 0 \/ nh <= 0 THEN NoImage ELSE canvas

Composite ==
    /\ pc = "composite"
    /\ \E dec \in Decodings(product_png) :
         LET out == CompositeThumbnail(env.HAS_PIL, product_png, bg_png, dec)
         IN /\ final' = out
            /\ last' = Step("composite", IF out = NoImage THEN "failed" ELSE "ok")
            /\ IF out = NoImage
                 THEN /\ pc' = "done"
                      /\ ret' = ReturnError(Msg("COMPOSITE_FAILED"))
                 ELSE /\ pc' = "p100"
                      /\ ret' = ret
    /\ stages' = Append(stages, "composite")
    /\ UNCHANGED <<inputs, study, frames, sret, img_url, title, img_bytes, product_png,
                   rembg_err, concept, bg_png, progress, attempts>>

\* "data:image/png;base64," + base64.b64encode(final).decode()
DataUrl(img) == [mime |-> "image/png", w |-> img.w, h |-> img.h]

\* return (data_url, None)
Finish ==
    /\ pc = "finish"
    /\ ret' = [k |-> "returned", data |-> DataUrl(final), err |-> NoErr]
    /\ pc' = "done"
    /\ last' = Step("finish", "ok")
    /\ UNCHANGED <<inputs, study, frames, sret, img_url, title, img_bytes, product_png,
                   rembg_err, concept, bg_png, final, progress, attempts, stages>>

(***************************************************************************)
(* _extract_image_from_html                                                 *)
(***************************************************************************)

\* The (url, title) tuple the extractor returns.
Extracted(u, t) == [url |-> u, title |-> t]

IsNaverErrorPageAnyLength(h) == h.len = 0 \/ h.marker

\* _is_naver_error_page: "not html or len(html) < 500", or any marker.
IsNaverErrorPage(h) == h.len = 0 \/ h.len < MinLength \/ h.marker

\* u.startswith("http")
StartsWithHttp(u) == ~u.pad /\ u.http

\* u.strip()
Strip(u) == [u EXCEPT !.pad = FALSE]

\* u.replace("\\/", "/")
Unescape(u) == [u EXCEPT !.esc = FALSE]

UpperLetters ==
    <<"A", "B", "C", "D", "E", "F", "G", "H", "I", "J", "K", "L", "M",
      "N", "O", "P", "Q", "R", "S", "T", "U", "V", "W", "X", "Y", "Z">>

LowerLetters ==
    <<"a", "b", "c", "d", "e", "f", "g", "h", "i", "j", "k", "l", "m",
      "n", "o", "p", "q", "r", "s", "t", "u", "v", "w", "x", "y", "z">>

\* The case folding of re.I.
ToLower(ch) ==
    LET at == {i \in 1..26 : UpperLetters[i] = ch}
    IN IF at = {} THEN ch ELSE LowerLetters[CHOOSE i \in at : TRUE]

\* re.search(word, text, re.I) for a literal word
Contains(text, word) ==
    LET low == [i \in 1..Len(text) |-> ToLower(text[i])]
    IN \E i \in 1..(Len(text) - Len(word) + 1) :
           \A j \in 1..Len(word) : low[i + j - 1] = word[j]

\* logo|icon|banner|ad
BroadExclusions ==
    {<<"l", "o", "g", "o">>, <<"i", "c", "o", "n">>,
     <<"b", "a", "n", "n", "e", "r">>, <<"a", "d">>}

\* logo|icon|banner|ad|spinner|1x1|pixel
FieldExclusions ==
    BroadExclusions \cup
    {<<"s", "p", "i", "n", "n", "e", "r">>, <<"1", "x", "1">>,
     <<"p", "i", "x", "e", "l">>}

ExcludedNever(u, words) == FALSE

\* re.search(words, u, re.I): the hosts and the extensions of the model hold
\* none of the words, so the path decides.
Excluded(u, words) == \E w \in words : Contains(u.path, w)

\* https?:// ... (shop-phinf|phinf\.pstatic) ... \.(jpg|jpeg|png|webp)
CdnPath(e) == e.url.http /\ ~e.url.esc /\ e.url.host = "shop-phinf" /\ e.url.ext

\* https?://[a-zA-Z0-9.-]*pstatic\.net/ ... \.(jpg|jpeg|png|webp)
BroadCdn(e) ==
    e.url.http /\ ~e.url.esc /\ e.url.host \in {"shop-phinf", "pstatic"} /\ e.url.ext

\* The seven patterns of the JSON/script loop, in its order.
EmbeddedPatterns ==
    <<"quoted_shop_phinf", "quoted_phinf_pstatic", "imageUrl",
      "representativeImage", "image", "thumbUrl", "productImage">>

\* The five patterns of the generic loop, in its order.
GenericPatterns == <<"image", "productImage", "mainImage", "thumbnail", "data_src">>

\* Does the pattern match the piece of markup: the two quoted-URL patterns
\* need a quote right in front of https?://, the data-src pattern needs the
\* extension, a field or tag pattern needs its field or tag name.
PatternMatches(p, e) ==
    CASE p \in {"quoted_shop_phinf", "quoted_phinf_pstatic"} -> CdnPath(e) /\ ~e.url.pad
      [] p = "cdn_path" -> CdnPath(e)
      [] p = "broad_cdn" -> BroadCdn(e)
      [] p = "data_src" -> e.kind = "data_src" /\ e.url.ext
      [] OTHER -> e.kind = p

\* m = re.search(pattern, html); m.group(1): the URL of the first piece of
\* markup, in document order, that the pattern matches; NoLink when m is None.
Search(p, els) ==
    LET hits == {i \in 1..Len(els) : PatternMatches(p, els[i])}
    IN IF hits = {} THEN NoLink
       ELSE els[CHOOSE i \in hits : \A j \in hits : i <= j].url

\* "if u.startswith('http') and ('shop-phinf' in u or 'phinf' in u or
\* 'pstatic' in u): if not re.search(...)"
AcceptsEmbedded(u) ==
    /\ StartsWithHttp(u)
    /\ u.host \in {"shop-phinf", "pstatic"}
    /\ ~Excluded(u, FieldExclusions)

\* "if u.startswith('http') and not re.search(...)"
AcceptsGeneric(u) == StartsWithHttp(u) /\ ~Excluded(u, FieldExclusions)

\* "for pat in [...]": the value of the first pattern whose first match is
\* accepted; a rejected value sends the loop on to the next pattern.
FieldLoop(els, pats, cdnOnly) ==
    LET value == [i \in 1..Len(pats) |-> Strip(Unescape(Search(pats[i], els)))]
        accepts(u) == IF cdnOnly THEN AcceptsEmbedded(u) ELSE AcceptsGeneric(u)
        accepted == {i \in 1..Len(pats) : value[i] # NoLink /\ accepts(value[i])}
    IN IF accepted = {} THEN NoLink
       ELSE value[CHOOSE i \in accepted : \A j \in accepted : i <= j]

\* og:image
OgImageRule(h) ==
    LET img == Strip(Search("og_image", h.els))
    IN IF StartsWithHttp(img) THEN img ELSE NoLink

\* img with the representative-image alt text: the alt text must occur in
\* the document, and m.group(1) is tested before it is stripped.
AltImageRule(h) ==
    LET m == Search("alt_img", h.els)
    IN IF (\E i \in 1..Len(h.els) : h.els[i].kind = "alt_img") /\ StartsWithHttp(m)
         THEN Strip(m) ELSE NoLink

\* shop-phinf URL anywhere in the markup
CdnPathRule(h) == Strip(Search("cdn_path", h.els))

\* image URLs inside JSON and scripts
EmbeddedRule(h) == FieldLoop(h.els, EmbeddedPatterns, TRUE)

\* any pstatic.net image
BroadCdnRule(h) ==
    LET u == Strip(Search("broad_cdn", h.els))
    IN IF u # NoLink /\ ~Excluded(u, BroadExclusions) THEN u ELSE NoLink

\* generic product-image fields
GenericRule(h) == FieldLoop(h.els, GenericPatterns, FALSE)

ExtractImageGenericFirst(h) ==
    IF IsNaverErrorPage(h) THEN Extracted(NoLink, NoTitle)
    ELSE LET t == IF h.title THEN SomeTitle ELSE NoTitle
         IN IF OgImageRule(h) # NoLink THEN Extracted(OgImageRule(h), t)
            ELSE IF AltImageRule(h) # NoLink THEN Extracted(AltImageRule(h), t)
            ELSE IF CdnPathRule(h) # NoLink THEN Extracted(CdnPathRule(h), t)
            ELSE IF EmbeddedRule(h) # NoLink THEN Extracted(EmbeddedRule(h), t)
            ELSE IF GenericRule(h) # NoLink THEN Extracted(GenericRule(h), t)
            ELSE IF BroadCdnRule(h) # NoLink THEN Extracted(BroadCdnRule(h), t)
            ELSE Extracted(NoLink, t)

\* _extract_image_from_html
ExtractImageFromHtml(h) ==
    IF IsNaverErrorPage(h) THEN Extracted(NoLink, NoTitle)
    ELSE LET t == IF h.title THEN SomeTitle ELSE NoTitle
         IN IF OgImageRule(h) # NoLink THEN Extracted(OgImageRule(h), t)
            ELSE IF AltImageRule(h) # NoLink THEN Extracted(AltImageRule(h), t)
            ELSE IF CdnPathRule(h) # NoLink THEN Extracted(CdnPathRule(h), t)
            ELSE IF EmbeddedRule(h) # NoLink THEN Extracted(EmbeddedRule(h), t)
            ELSE IF BroadCdnRule(h) # NoLink THEN Extracted(BroadCdnRule(h), t)
            ELSE IF GenericRule(h) # NoLink THEN Extracted(GenericRule(h), t)
            ELSE Extracted(NoLink, t)

MaxCalls == 2

MaxBetween == 1

ExtractKeepingTitle ==
    /\ pc = "study_extract"
    /\ Len(answers) < MaxCalls
    /\ answers' = Append(answers,
                         IF between = <<>> THEN ExtractImageFromHtml(html)
                         ELSE Extracted(ExtractImageFromHtml(html).url,
                                        between[Len(between)].title))
    /\ UNCHANGED <<inputs, html, between, pixel, painted, run, services>>

\* A call of the extractor on the document under study.
Extract ==
    /\ pc = "study_extract"
    /\ Len(answers) < MaxCalls
    /\ answers' = Append(answers, ExtractImageFromHtml(html))
    /\ UNCHANGED <<inputs, html, between, pixel, painted, run, services>>

\* A call of the extractor on some other document: it reads its argument and
\* writes nothing but its own locals.
ExtractOther ==
    /\ pc = "study_extract"
    /\ Len(between) < MaxBetween
    /\ \E h \in OtherDocuments :
         between' = Append(between, ExtractImageFromHtml(h))
    /\ UNCHANGED <<inputs, html, answers, pixel, painted, run, services>>

(***************************************************************************)
(* composite_thumbnail: the cutout's size, place and alpha                  *)
(***************************************************************************)

\* The alpha channel holds 8-bit values.
MaxAlpha == 255

RefineAlphaUnclamped(v) ==
    IF v < 95 THEN 0 ELSE ((v - 95) * 255) \div (250 - 95)

\* _refine_alpha
RefineAlpha(v) ==
    IF v < 95 THEN 0
    ELSE IF v >= 250 THEN 255
    ELSE ((v - 95) * 255) \div (250 - 95)

\* (1000 - n) // 2
Offset(n) == (CanvasSize - n) \div 2

\* Lines 794-814: the resize target, the offsets and the refined alpha of a
\* cutout; resize raises on a target of width or height 0, which ends
\* composite_thumbnail in its "except Exception: return None".
Paint(p) ==
    LET nw == ScaledSide(p.w, p.w, p.h)
        nh == ScaledSide(p.h, p.w, p.h)
    IN IF nw <= 0 \/ nh <= 0
         THEN [done |-> TRUE, ok |-> FALSE, nw |-> nw, nh |-> nh,
               x |-> 0, y |-> 0, a |-> 0]
         ELSE [done |-> TRUE, ok |-> TRUE, nw |-> nw, nh |-> nh,
               x |-> Offset(nw), y |-> Offset(nh), a |-> RefineAlpha(p.a)]

\* A call of composite_thumbnail on the cutout under study.
Paste ==
    /\ pc = "study_composite"
    /\ ~painted.done
    /\ painted' = Paint(pixel)
    /\ UNCHANGED <<inputs, html, answers, between, pixel, run, services>>

(***************************************************************************)
(* _get_rembg_session                                                       *)
(***************************************************************************)

\* Thread t enters _get_rembg_session and reads the global at line 429:
\* a cached session is returned, otherwise the thread goes on to build one
\* (rembg_new_session is set whenever HAS_REMBG lets _local run).
SessionTest(t) ==
    /\ pc = "study_session"
    /\ callers[t].pc = "outside"
    /\ \E quality \in Qualities :
         callers' = [callers EXCEPT ![t] =
                       IF REMBG_SESSION # NoSession
                         THEN Caller("returned", quality, 0, REMBG_SESSION, <<>>,
                                     REMBG_SESSION)
                         ELSE Caller("build", quality, 1, NoSession, <<>>, NoSession)]
    /\ UNCHANGED <<inputs, run, html, answers, between, pixel, painted, accounts, poll, search, tasks,
                   REMBG_SESSION, stored, uploads, posts>>

\* Lines 438-444, one turn of the loop in thread t: rembg_new_session(model)
\* returns and the session is assigned to the global and returned, or it
\* raises and the loop goes on; after the last model the call returns None.
SessionBuild(t) ==
    /\ pc = "study_session"
    /\ callers[t].pc = "build"
    /\ LET c == callers[t]
           models == ModelsFor(c.quality)
           m == c.model
           tried == Append(c.tried, models[m])
       IN \/ /\ REMBG_SESSION' = Session(t, models[m])
             /\ stored' = Append(stored, Session(t, models[m]))
             /\ callers' = [callers EXCEPT ![t] =
                              Caller("returned", c.quality, m, c.saw, tried,
                                     Session(t, models[m]))]
          \/ /\ callers' = [callers EXCEPT ![t] =
                              IF m < Len(models)
                                THEN Caller("build", c.quality, m + 1, c.saw, tried, NoSession)
                                ELSE Caller("returned", c.quality, m, c.saw, tried, NoSession)]
             /\ UNCHANGED <<REMBG_SESSION, stored>>
    /\ UNCHANGED <<inputs, run, html, answers, between, pixel, painted, accounts, poll, search, tasks,
                   uploads, posts>>

(***************************************************************************)
(* post_to_youtube                                                          *)
(***************************************************************************)

\* What _download_video_to_tempfile met after it created the file: a status
\* other than 200, an exception, or the whole body.
VideoDownloadOutcomes == {"status", "exception", "ok"}

\* _download_video_to_tempfile and lines 330-331: an invalid video_url
\* returns before a file is made; otherwise the file is made, and every
\* return carries "path" except the one for a status other than 200.
YtDownload ==
    /\ pc = "study_youtube"
    /\ yt.pc = "download"
    /\ IF yt.video_url # "http"
         THEN /\ yt' = [yt EXCEPT !.pc = "downloaded", !.dl = "invalid"]
              /\ UNCHANGED tmpfiles
         ELSE \E o \in VideoDownloadOutcomes :
                /\ tmpfiles' = tmpfiles \cup {yt.n}
                /\ yt' = [yt EXCEPT !.pc = "downloaded", !.dl = o,
                                    !.tmp_path = IF o = "status" THEN NoPath ELSE yt.n]
    /\ UNCHANGED <<inputs, run, html, answers, between, pixel, painted, accounts, poll, search, tasks,
                   sessions, posts>>

\* "if tmp_path and os.path.exists(tmp_path): os.remove(tmp_path)"
Remove(files, path) == IF path # NoPath THEN files \ {path} ELSE files

\* Lines 332-341: a failed download removes the file it knows of and
\* returns the error; a finished one enters the try block.
YtDownloaded ==
    /\ pc = "study_youtube"
    /\ yt.pc = "downloaded"
    /\ IF yt.dl # "ok"
         THEN /\ tmpfiles' = Remove(tmpfiles, yt.tmp_path)
              /\ yt' = [yt EXCEPT !.pc = "returned", !.out = "error"]
         ELSE /\ yt' = [yt EXCEPT !.pc = "start"]
              /\ UNCHANGED tmpfiles
    /\ UNCHANGED <<inputs, run, html, answers, between, pixel, painted, accounts, poll, search, tasks,
                   sessions, posts>>

\* What _start_resumable_upload gives: a location, an error with status
\* 401, another error, or an exception of the HTTP client.
StartOutcomes == {"ok", "error401", "error", "exception"}

\* refresh_youtube_access_token followed by the second
\* _start_resumable_upload: the refresh fails, or it succeeds and the start
\* gives one of its outcomes.
RetryStartOutcomes == {"norefresh"} \cup StartOutcomes

\* Lines 344-354: the first start; on an error with status 401 and with a
\* refresh token, one refresh and, when it gave a token, the second start
\* with it, whose success is marked with new_access_token.
YtStart ==
    /\ pc = "study_youtube"
    /\ yt.pc = "start"
    /\ \E s1 \in StartOutcomes :
       \E s2 \in IF s1 = "error401" /\ yt.refresh_token
                   THEN RetryStartOutcomes ELSE {"norefresh"} :
         LET start == IF s2 = "norefresh" THEN s1 ELSE s2
             asked == s1 = "error401" /\ yt.refresh_token
             got == asked /\ s2 \in {"ok", "error401", "error"}
             token == IF got THEN yt.issued + 1 ELSE yt.access_token
         IN yt' = [yt EXCEPT !.start = start,
                             !.refreshed = (s2 \notin {"norefresh", "exception"}),
                             !.raised = (start = "exception"),
                             !.out = IF start \in {"error401", "error"}
                                       THEN "error" ELSE "none",
                             !.pc = IF start = "ok" THEN "upload" ELSE "finally",
                             !.first_start = s1,
                             !.refreshes = IF asked THEN Append(yt.refreshes, "start")
                                           ELSE yt.refreshes,
                             !.starts = IF got THEN 2 ELSE 1,
                             !.issued = IF got THEN yt.issued + 1 ELSE yt.issued,
                             !.access_token = token,
                             !.start_new = IF got /\ s2 = "ok" THEN token ELSE NoToken]
    /\ UNCHANGED <<inputs, run, html, answers, between, pixel, painted, accounts, poll, search, tasks,
                   sessions, tmpfiles,
                   posts>>

\* What _upload_resumable gives: the video id, an error with status 401, or
\* another error (its own exceptions included).
UploadOutcomes == {"ok", "error401", "error"}

\* The retry of lines 358-365: the refresh fails, the second start fails or
\* raises, or the second upload gives one of its outcomes.
RetryUploadOutcomes == {"norefresh", "nostart", "exception"} \cup UploadOutcomes

\* A mutant of NewAccessToken: the token the start phase marked.
NewAccessTokenOfStart(start_new, up_new) == start_new

\* Lines 369-372: out["new_access_token"] is start's, overwritten by up's.
NewAccessToken(start_new, up_new) == IF up_new # NoToken THEN up_new ELSE start_new

\* Lines 355-373: the first upload; on an error with status 401 and with a
\* refresh token, one refresh, a new start and the second upload, whose
\* success is marked with new_access_token; then the error or the result.
YtUpload ==
    /\ pc = "study_youtube"
    /\ yt.pc = "upload"
    /\ \E u1 \in UploadOutcomes :
       \E u2 \in IF u1 = "error401" /\ yt.refresh_token
                   THEN RetryUploadOutcomes ELSE {"norefresh"} :
         LET up == IF u2 \in UploadOutcomes THEN u2 ELSE u1
             asked == u1 = "error401" /\ yt.refresh_token
             got == asked /\ u2 \in {"nostart"} \cup UploadOutcomes
             token == IF got THEN yt.issued + 1 ELSE yt.access_token
             up_new == IF got /\ u2 = "ok" THEN token ELSE NoToken
         IN yt' = [yt EXCEPT !.up = up,
                             !.refreshed = (yt.refreshed \/ u2 # "norefresh"),
                             !.raised = (u2 = "exception"),
                             !.out = IF u2 = "exception" THEN "none"
                                     ELSE IF up = "ok" THEN "ok" ELSE "error",
                             !.pc = "finally",
                             !.first_up = u1,
                             !.refreshes = IF asked THEN Append(yt.refreshes, "upload")
                                           ELSE yt.refreshes,
                             !.starts = IF got THEN yt.starts + 1 ELSE yt.starts,
                             !.uploads = IF u2 \in UploadOutcomes THEN 2 ELSE 1,
                             !.issued = IF got THEN yt.issued + 1 ELSE yt.issued,
                             !.access_token = token,
                             !.up_new = up_new,
                             !.new_access_token =
                                 IF u2 # "exception" /\ up = "ok"
                                   THEN NewAccessToken(yt.start_new, up_new)
                                   ELSE NoToken]
    /\ UNCHANGED <<inputs, run, html, answers, between, pixel, painted, accounts, poll, search, tasks,
                   sessions, tmpfiles,
                   posts>>

\* Lines 374-379: the finally block, then the return or the exception.
YtFinally ==
    /\ pc = "study_youtube"
    /\ yt.pc = "finally"
    /\ tmpfiles' = Remove(tmpfiles, yt.tmp_path)
    /\ yt' = [yt EXCEPT !.pc = IF yt.raised THEN "raised" ELSE "returned"]
    /\ UNCHANGED <<inputs, run, html, answers, between, pixel, painted, accounts, poll, search, tasks,
                   sessions, posts>>

\* post_to_connection, lines 331-333, after post_to_youtube returned:
\* "if result.get("new_access_token"): update_connection_tokens(...)".
YtPosted ==
    /\ pc = "study_youtube"
    /\ yt.pc = "returned"
    /\ yt' = [yt EXCEPT !.pc = "posted",
                        !.conn_token = IF yt.new_access_token # NoToken
                                         THEN yt.new_access_token ELSE yt.conn_token]
    /\ UNCHANGED <<inputs, run, html, answers, between, pixel, painted, accounts, poll, search, tasks,
                   sessions, tmpfiles,
                   posts>>

\* The next call of post_to_youtube, with the stored access token.
YtCall ==
    /\ pc = "study_youtube"
    /\ yt.pc \in {"posted", "raised"}
    /\ yt.n < MaxPosts
    /\ \E v \in VideoUrls, r \in BOOLEAN :
         yt' = [YoutubeCall(yt.n + 1, v, r) EXCEPT
                  !.conn_token = yt.conn_token, !.issued = yt.issued,
                  !.given = yt.conn_token, !.access_token = yt.conn_token]
    /\ UNCHANGED <<inputs, run, html, answers, between, pixel, painted, accounts, poll, search, tasks,
                   sessions, tmpfiles,
                   posts>>

(***************************************************************************)
(* _run_scheduled_posts                                                     *)
(***************************************************************************)

RECURSIVE DueFrom(_, _)
\* get_due_items: the pending items whose time has passed, in file order,
\* from index k on (an item is named by its index in the file).
DueFrom(items, k) ==
    IF k > Len(items) THEN <<>>
    ELSE IF items[k].status = "pending" /\ items[k].passed
      THEN <<k>> \o DueFrom(items, k + 1)
      ELSE DueFrom(items, k + 1)

GetDueItems(items) == DueFrom(items, 1)

\* mark_posted / mark_failed
Mark(items, k, status) == [items EXCEPT ![k].status = status]

\* The sleep is over: "due = get_due_items()".
PollWake ==
    /\ pc = "study_schedule"
    /\ poller.pc = "sleep"
    /\ poller' = [pc |-> "loop", due |-> GetDueItems(schedule), i |-> 1]
    /\ UNCHANGED <<inputs, run, html, answers, between, pixel, painted, accounts, poll, search, tasks,
                   sessions,
                   uploads, schedule>>

\* What post_to_connection does: a result with "ok", a result with
\* "error", or an exception (the HTTP client's, or the parser's on a body
\* that is no JSON).
PublishOutcomes == {"ok", "error", "exception"}

\* Lines 70-85, one turn of "for item in due": an item without connection_id
\* or caption is marked failed; otherwise the publish call is awaited and its
\* result marked; an exception leaves the for loop for the "except
\* Exception: pass" around it.
PollItem ==
    /\ pc = "study_schedule"
    /\ poller.pc = "loop"
    /\ poller.i <= Len(poller.due)
    /\ LET k == poller.due[poller.i]
       IN IF ~schedule[k].complete
            THEN /\ schedule' = Mark(schedule, k, "failed")
                 /\ poller' = [poller EXCEPT !.i = poller.i + 1]
            ELSE \E o \in PublishOutcomes :
                   CASE o = "ok" ->
                          /\ schedule' = Mark(schedule, k, "posted")
                          /\ poller' = [poller EXCEPT !.i = poller.i + 1]
                     [] o = "error" ->
                          /\ schedule' = Mark(schedule, k, "failed")
                          /\ poller' = [poller EXCEPT !.i = poller.i + 1]
                     [] OTHER ->
                          /\ poller' = Asleep
                          /\ UNCHANGED schedule
    /\ UNCHANGED <<inputs, run, html, answers, between, pixel, painted, accounts, poll, search, tasks,
                   sessions, uploads>>

\* The for loop is exhausted: "await asyncio.sleep(60)".
PollSleep ==
    /\ pc = "study_schedule"
    /\ poller.pc = "loop"
    /\ poller.i > Len(poller.due)
    /\ poller' = Asleep
    /\ UNCHANGED <<inputs, run, html, answers, between, pixel, painted, accounts, poll, search, tasks,
                   sessions,
                   uploads, schedule>>

\* Time goes by: the scheduled_at time of an item passes.
TimePasses ==
    /\ pc = "study_schedule"
    /\ \E k \in 1..Len(schedule) :
         /\ ~schedule[k].passed
         /\ schedule' = [schedule EXCEPT ![k].passed = TRUE]
    /\ UNCHANGED <<inputs, run, html, answers, between, pixel, painted, accounts, poll, search, tasks,
                   sessions,
                   uploads, poller>>

(***************************************************************************)
(* The connection store: logins, disconnect_connection,                     *)
(* update_connection_tokens and list_connections_public                     *)
(***************************************************************************)

\* c.get(key): the value under key, None when the dictionary has no such key.
Get(c, key) == IF key \in DOMAIN c THEN c[key] ELSE "None"

\* c with c[key] = value, the key added when it was not there.
Put(c, key, value) ==
    [k \in DOMAIN c \cup {key} |-> IF k = key THEN value ELSE c[k]]

\* A mutant of PublicRecord: the stored dictionary itself.
PublicRecordWhole(c) == c

\* The dictionary list_connections_public makes of one stored connection.
PublicRecord(c) == [k \in PublicKeys |-> Get(c, k)]

ListConnectionsPublic(conns) == [i \in 1..Len(conns) |-> PublicRecord(conns[i])]

\* str(uuid4()): an id no stored connection has.
FreshId(conns) ==
    CHOOSE id \in 1..(Len(conns) + 1) : \A i \in 1..Len(conns) : conns[i].id # id

\* A login of one platform appends its connection and saves the store.
Connect ==
    /\ pc = "study_accounts"
    /\ Len(connections) < MaxConnections
    /\ \E platform \in Platforms, token \in Tokens, refresh \in RefreshTokens :
         connections' = Append(connections,
                               SavedConnection(FreshId(connections), platform, token, refresh))
    /\ listing' = <<>>
    /\ UNCHANGED <<inputs, run, html, answers, between, pixel, painted,
                   sessions, uploads, posts, poll, search, tasks>>

\* disconnect_connection(connection_id) of a stored connection.
DisconnectConnection ==
    /\ pc = "study_accounts"
    /\ \E i \in 1..Len(connections) :
         connections' = SubSeq(connections, 1, i - 1) \o
                        SubSeq(connections, i + 1, Len(connections))
    /\ listing' = <<>>
    /\ UNCHANGED <<inputs, run, html, answers, between, pixel, painted,
                   sessions, uploads, posts, poll, search, tasks>>

\* update_connection_tokens(connection_id, access_token, refresh_token): a
\* non-empty access_token and a refresh_token that is not None are written
\* into the connection, whatever its platform.
UpdateConnectionTokens ==
    /\ pc = "study_accounts"
    /\ \E i \in 1..Len(connections),
          access_token \in Tokens \cup {"", "None"},
          refresh_token \in RefreshTokens \cup {"None"} :
         LET c  == connections[i]
             c1 == IF access_token \notin {"", "None"}
                     THEN Put(c, "access_token", access_token) ELSE c
             c2 == IF refresh_token # "None"
                     THEN Put(c1, "refresh_token", refresh_token) ELSE c1
         IN /\ c2 # c
            /\ connections' = [connections EXCEPT ![i] = c2]
    /\ listing' = <<>>
    /\ UNCHANGED <<inputs, run, html, answers, between, pixel, painted,
                   sessions, uploads, posts, poll, search, tasks>>

\* GET /api/sns/connections: {"connections": list_connections_public()}.
SnsListConnections ==
    /\ pc = "study_accounts"
    /\ listing' = ListConnectionsPublic(connections)
    /\ UNCHANGED <<inputs, run, html, answers, between, pixel, painted,
                   sessions, uploads, posts, poll, search, tasks, connections>>

(***************************************************************************)
(* Step 4 of scrape_naver_product and _try_naver_search_api                 *)
(***************************************************************************)

\* re.search(r"/products/(\d+)", url): the pattern is looked for in the
\* whole url string, its query string included.
ProductIdFound(pid) == pid \in {"path", "query"}

\* title.replace("<b>", "").replace("</b>", "") or None
CleanTitle(t) == IF t = "empty" THEN "None" ELSE "plain"

\* (image, title) of an item
ItemResult(item) == [image |-> item.image, title |-> CleanTitle(item.title)]

RECURSIVE FirstMatch(_)
\* The for loop over data["items"]: the first item with the productId asked
\* for and an image starting with http; <<>> when the loop ends without one.
FirstMatch(items) ==
    IF items = <<>> THEN <<>>
    ELSE IF Head(items).same /\ Head(items).image.k = "http" THEN <<Head(items)>>
    ELSE FirstMatch(Tail(items))

\* A mutant of TryNaverSearchApi: the first item, whatever its productId.
TryNaverSearchApiFirstOnly(hasHttpx, response) ==
    IF ~hasHttpx \/ ~response.ok THEN NothingFound
    ELSE IF response.items # <<>> /\ response.items[1].image.k = "http"
           THEN ItemResult(response.items[1])
    ELSE NothingFound

\* _try_naver_search_api with non-empty arguments
TryNaverSearchApi(hasHttpx, response) ==
    IF ~hasHttpx \/ ~response.ok THEN NothingFound
    ELSE IF FirstMatch(response.items) # <<>>
           THEN ItemResult(FirstMatch(response.items)[1])
    ELSE IF response.items # <<>> /\ response.items[1].image.k = "http"
           THEN ItemResult(response.items[1])
    ELSE NothingFound

\* Lines 409-418: "if naver_client_id and naver_client_secret", the search
\* for the product id, the call, and "return (None, None)" otherwise.
SearchStep ==
    /\ pc = "study_search"
    /\ search.pc = "call"
    /\ LET called == search.creds[1] /\ search.creds[2] /\ ProductIdFound(search.pid)
       IN search' = [search EXCEPT
                       !.pc = "returned",
                       !.called = called,
                       !.queried = called /\ search.has_httpx,
                       !.result = IF called
                                    THEN TryNaverSearchApi(search.has_httpx, search.response)
                                    ELSE NothingFound]
    /\ UNCHANGED <<inputs, run, html, answers, between, pixel, painted,
                   sessions, uploads, posts, accounts, poll, tasks>>

(***************************************************************************)
(* _replicate_remove: the POST, the polling loop, the download of the       *)
(* output                                                                   *)
(***************************************************************************)

\* A prediction document: its "status" and its "output".
Prediction(status, output) == [status |-> status, output |-> output]

Predictions == {Prediction(st, o) : st \in Statuses, o \in Outputs}

\* "if not out_url and data.get("status") in ("starting", "processing")"
AnswersAsynchronously(doc) ==
    doc.output = "none" /\ doc.status \in {"starting", "processing"}

\* A mutant of PollFailed: the status failed is not looked at.
PollFailedIgnored(doc) == FALSE

\* "if data.get("status") == "failed"" inside the loop
PollFailed(doc) == doc.status = "failed"

\* "if out_url or data.get("status") == "succeeded": break"
PollDone(doc) == doc.output # "none" \/ doc.status = "succeeded"

\* The POST of the prediction: a rejection (401, 403 or any status but 200
\* and 201) or an exception return a message at once; a document either
\* starts the polling loop or goes straight to the output.
ReplicatePost ==
    /\ pc = "study_poll"
    /\ poll.pc \in {"idle", "returned"}
    /\ \/ poll' = [Idle EXCEPT !.pc = "returned", !.out = "error"]
       \/ \E doc \in Predictions :
            poll' = [Idle EXCEPT !.pc = IF AnswersAsynchronously(doc)
                                          THEN "polling" ELSE "fetch",
                                 !.status = doc.status, !.output = doc.output]
    /\ UNCHANGED <<inputs, run, html, answers, between, pixel, painted,
                   sessions, uploads, posts, accounts, search, tasks>>

\* One turn of "for _ in range(60)": the GET of the status URL raises, or
\* gives a document that ends the call (failed), ends the loop (an output,
\* or succeeded) or, when turns are left, leads to the next turn.
ReplicatePoll ==
    /\ pc = "study_poll"
    /\ poll.pc = "polling"
    /\ poll.n < PollLimit
    /\ \/ poll' = [poll EXCEPT !.pc = "returned", !.n = poll.n + 1, !.out = "error"]
       \/ \E doc \in Predictions :
            poll' = [poll EXCEPT
                       !.n = poll.n + 1,
                       !.status = doc.status,
                       !.output = doc.output,
                       !.pc = IF PollFailed(doc) THEN "returned"
                              ELSE IF PollDone(doc) THEN "fetch"
                              ELSE IF poll.n + 1 < PollLimit THEN "polling"
                              ELSE "fetch",
                       !.out = IF PollFailed(doc) THEN "error" ELSE "none"]
    /\ UNCHANGED <<inputs, run, html, answers, between, pixel, painted,
                   sessions, uploads, posts, accounts, search, tasks>>

\* After the loop: an output that is an http string or a dictionary with a
\* url is downloaded and its content returned, unless the GET raises; any
\* other output, or none, returns the no-output message.
ReplicateFetch ==
    /\ pc = "study_poll"
    /\ poll.pc = "fetch"
    /\ \E o \in IF poll.output \in {"http", "dict_url"} THEN {"bytes", "error"}
                ELSE {"error"} :
         poll' = [poll EXCEPT !.pc = "returned", !.out = o]
    /\ UNCHANGED <<inputs, run, html, answers, between, pixel, painted,
                   sessions, uploads, posts, accounts, search, tasks>>

(***************************************************************************)
(* Specifications                                                           *)
(***************************************************************************)

Next ==
    \/ Progress
    \/ Source
    \/ ScrapeHttpx
    \/ ScrapePlaywright
    \/ ScrapeUc
    \/ ScrapeMobile
    \/ ScrapeMobileReturn
    \/ ScrapeMobileTimeout
    \/ ScrapeApi
    \/ ScrapeDone
    \/ ResolverTimeout
    \/ Local
    \/ Remote
    \/ Analyze
    \/ Background
    \/ Composite
    \/ Finish

\* One call of run_pipeline.
Spec == Init /\ [][Next]_vars

NextScrape ==
    \/ ScrapeHttpx
    \/ ScrapePlaywright
    \/ ScrapeUc
    \/ ScrapeMobile
    \/ ScrapeMobileReturn
    \/ ScrapeMobileTimeout
    \/ ScrapeApi
    \/ ScrapeDone
    \/ ResolverTimeout

\* One call of scrape_naver_product by run_pipeline, up to the moment
\* run_pipeline has its result.
SpecScrape == InitScrape /\ [][NextScrape]_vars

\* The steps scrape_naver_product takes by itself, the two timeouts apart.
ScrapeSteps ==
    \/ ScrapeHttpx
    \/ ScrapePlaywright
    \/ ScrapeUc
    \/ ScrapeMobile
    \/ ScrapeMobileReturn
    \/ ScrapeApi
    \/ ScrapeDone

\* The resolver with every strategy call coming to an end (each has a
\* timeout of its own or returns), whether or not a wait_for budget expires.
SpecScrapeFair == InitScrape /\ [][NextScrape]_vars /\ WF_vars(ScrapeSteps)

InitExtract ==
    /\ NoRun
    /\ pc = "study_extract"
    /\ html \in Documents
    /\ answers = <<>>
    /\ between = <<>>
    /\ pixel = NoPixel
    /\ painted = NotPainted
    /\ NoServices

NextExtract ==
    \/ Extract
    \/ ExtractOther

\* Calls of _extract_image_from_html on one document, with calls on other
\* documents before, between and after them.
SpecExtract == InitExtract /\ [][NextExtract]_vars

InitComposite ==
    /\ NoRun
    /\ pc = "study_composite"
    /\ html = NoHtml
    /\ answers = <<>>
    /\ between = <<>>
    /\ pixel \in {Pixel(w, h, a) : w \in CutoutDims, h \in CutoutDims, a \in 0..MaxAlpha}
    /\ painted = NotPainted
    /\ NoServices

NextComposite == Paste

\* One call of composite_thumbnail on a decodable cutout.
SpecComposite == InitComposite /\ [][NextComposite]_vars

InitSession ==
    /\ NoRun
    /\ pc = "study_session"
    /\ NoStudy

NextSession ==
    \/ \E t \in Workers : SessionTest(t)
    \/ \E t \in Workers : SessionBuild(t)

\* Concurrent first calls of _get_rembg_session, one per worker thread.
SpecSession == InitSession /\ [][NextSession]_vars

InitYoutube ==
    /\ NoRun
    /\ pc = "study_youtube"
    /\ NoStudy

NextYoutube ==
    \/ YtCall
    \/ YtDownload
    \/ YtDownloaded
    \/ YtStart
    \/ YtUpload
    \/ YtFinally
    \/ YtPosted

\* Calls of post_to_youtube, one after the other.
SpecYoutube == InitYoutube /\ [][NextYoutube]_vars

InitAccounts ==
    /\ NoRun
    /\ pc = "study_accounts"
    /\ NoStudy

NextAccounts ==
    \/ Connect
    \/ DisconnectConnection
    \/ UpdateConnectionTokens
    \/ SnsListConnections

\* The connection store under logins, disconnects and token updates, and
\* the listings made of it.
SpecAccounts == InitAccounts /\ [][NextAccounts]_vars

(***************************************************************************)
(* Thumbnail jobs: create_shopping_thumbnail_job, _run_shopping_job and     *)
(* get_shopping_thumbnail_result                                            *)
(***************************************************************************)

\* ShoppingThumbnailJob(status="pending", ...) stored under a new uuid, and
\* asyncio.create_task(_run_shopping_job(...)).
NewJob(real) == [NoJob EXCEPT !.status = "pending", !.task = "created", !.real = real]

\* The values run_pipeline passes to on_progress, in order.
PipelineProgress ==
    <<ProgressValue("p5"), ProgressValue("p20"), ProgressValue("p40"),
      ProgressValue("p60"), ProgressValue("p85"), ProgressValue("p100")>>

\* "for p in [15, 35, 55, 75, 92]" of the mock branch.
MockProgress == <<15, 35, 55, 75, 92>>

ProgressOf(job) == IF job.real THEN PipelineProgress ELSE MockProgress

\* The on_progress calls after which run_pipeline returns a message: after
\* 5 (no image found), 20 (download, cutout), 60 (background), 85 (composite).
ErrorPoints == {1, 2, 4, 5}

\* What run_pipeline returns after k on_progress calls: the data URL after
\* the last one, a message after one of ErrorPoints.
PipelineReturns(k) ==
    (IF k = Len(PipelineProgress) THEN {[data_url |-> "png", err |-> "None"]} ELSE {})
    \cup (IF k \in ErrorPoints THEN {[data_url |-> "None", err |-> "message"]} ELSE {})

\* str(e) of an exception: a text, possibly the empty one.
ExceptionTexts == {"exception", ""}

\* def on_progress(step, p): job.progress = p
OnProgress(job, p) ==
    [job EXCEPT !.progress = p, !.reported = job.reported + 1, !.response = "none"]

\* A mutant of AfterReturned: the result is stored whatever err is.
AfterReturnedUnchecked(job, r) ==
    [job EXCEPT !.result_data_url = r.data_url, !.progress = 100,
                !.status = "completed", !.task = "ended", !.response = "none"]

\* Lines 300-307: "if err" the job fails with the message, otherwise it is
\* completed with the data URL and progress 100.
AfterReturned(job, r) ==
    IF r.err \notin {"None", ""}
      THEN [job EXCEPT !.status = "failed", !.error = r.err,
                       !.task = "ended", !.response = "none"]
      ELSE [job EXCEPT !.result_data_url = r.data_url, !.progress = 100,
                       !.status = "completed", !.task = "ended", !.response = "none"]

\* A mutant of AfterRaised: the exception leaves the task.
AfterRaisedUncaught(job, text) ==
    [job EXCEPT !.task = "ended", !.response = "none"]

\* Lines 308-311 and 323-326: "except Exception as e" fails the job with
\* str(e).
AfterRaised(job, text) ==
    [job EXCEPT !.status = "failed", !.error = text,
                !.task = "ended", !.response = "none"]

\* "," in data_url
HasComma(data_url) == data_url \in {"png", "svg"}

\* get_shopping_thumbnail_result: 404 unless the job is there, completed and
\* has a result; 500 on a result without a comma; the decoded bytes otherwise.
ResultResponse(job) ==
    IF job.status = "absent" \/ job.status # "completed" \/ job.result_data_url = "None"
      THEN "404"
    ELSE IF ~HasComma(job.result_data_url) THEN "500"
    ELSE "bytes"

\* The studies of the jobs: their tasks alone, and with result requests.
JobStudies == {"study_job", "study_result"}

\* POST /api/shopping/thumbnail/jobs: the job is stored as pending and its
\* task created; use_real_pipeline is what the keys of the request make it.
CreateShoppingThumbnailJob(j) ==
    /\ pc \in JobStudies
    /\ jobs[j].status = "absent"
    /\ \A i \in 1..(j - 1) : jobs[i].status # "absent"
    /\ \E real \in BOOLEAN : jobs' = [jobs EXCEPT ![j] = NewJob(real)]
    /\ UNCHANGED <<inputs, run, html, answers, between, pixel, painted,
                   sessions, uploads, posts, accounts, poll, search, queue, writers>>

\* The task starts: the job is found and 'job.status = "processing"'.
JobStart(j) ==
    /\ pc \in JobStudies
    /\ jobs[j].task = "created"
    /\ jobs' = [jobs EXCEPT ![j].status = "processing", ![j].task = "running",
                            ![j].response = "none"]
    /\ UNCHANGED <<inputs, run, html, answers, between, pixel, painted,
                   sessions, uploads, posts, accounts, poll, search, queue, writers>>

\* The next on_progress call, of run_pipeline or of the mock loop.
JobProgress(j) ==
    /\ pc \in JobStudies
    /\ jobs[j].task = "running"
    /\ jobs[j].reported < Len(ProgressOf(jobs[j]))
    /\ jobs' = [jobs EXCEPT ![j] = OnProgress(@, ProgressOf(@)[@.reported + 1])]
    /\ UNCHANGED <<inputs, run, html, answers, between, pixel, painted,
                   sessions, uploads, posts, accounts, poll, search, queue, writers>>

\* "data_url, err = await run_pipeline(...)" returns.
JobReturned(j) ==
    /\ pc \in JobStudies
    /\ jobs[j].task = "running"
    /\ jobs[j].real
    /\ \E r \in PipelineReturns(jobs[j].reported) :
         jobs' = [jobs EXCEPT ![j] = AfterReturned(@, r)]
    /\ UNCHANGED <<inputs, run, html, answers, between, pixel, painted,
                   sessions, uploads, posts, accounts, poll, search, queue, writers>>

\* Lines 317-320: the mock loop is over, the svg is the result.
JobMocked(j) ==
    /\ pc \in JobStudies
    /\ jobs[j].task = "running"
    /\ ~jobs[j].real
    /\ jobs[j].reported = Len(MockProgress)
    /\ jobs' = [jobs EXCEPT ![j] = AfterReturned(@, [data_url |-> "svg", err |-> "None"])]
    /\ UNCHANGED <<inputs, run, html, answers, between, pixel, painted,
                   sessions, uploads, posts, accounts, poll, search, queue, writers>>

\* The import of the pipeline or the call of run_pipeline raises.
JobRaised(j) ==
    /\ pc \in JobStudies
    /\ jobs[j].task = "running"
    /\ jobs[j].real
    /\ \E text \in ExceptionTexts :
         jobs' = [jobs EXCEPT ![j] = AfterRaised(@, text)]
    /\ UNCHANGED <<inputs, run, html, answers, between, pixel, painted,
                   sessions, uploads, posts, accounts, poll, search, queue, writers>>

\* GET /api/shopping/thumbnail/jobs/{job_id}/result
GetShoppingThumbnailResult(j) ==
    /\ pc = "study_result"
    /\ jobs' = [jobs EXCEPT ![j].response = ResultResponse(jobs[j])]
    /\ UNCHANGED <<inputs, run, html, answers, between, pixel, painted,
                   sessions, uploads, posts, accounts, poll, search, queue, writers>>

\* The steps of the task of job j.
JobTask(j) ==
    \/ JobStart(j)
    \/ JobProgress(j)
    \/ JobReturned(j)
    \/ JobMocked(j)
    \/ JobRaised(j)

InitJob ==
    /\ NoRun
    /\ pc = "study_job"
    /\ NoStudy

NextJob ==
    \/ \E j \in 1..MaxJobs : CreateShoppingThumbnailJob(j)
    \/ \E j \in 1..MaxJobs : JobStart(j)
    \/ \E j \in 1..MaxJobs : JobProgress(j)
    \/ \E j \in 1..MaxJobs : JobReturned(j)
    \/ \E j \in 1..MaxJobs : JobMocked(j)
    \/ \E j \in 1..MaxJobs : JobRaised(j)

\* Thumbnail jobs created by requests, their tasks interleaved at the awaits
\* of the event loop.  The loop runs a task that is ready, and a pipeline
\* call that returns or raises makes its task ready: some task that can take
\* a step does.
SpecJob ==
    /\ InitJob
    /\ [][NextJob]_vars
    /\ WF_vars(\E j \in 1..MaxJobs : JobTask(j))

InitResult ==
    /\ NoRun
    /\ pc = "study_result"
    /\ NoStudy

NextResult ==
    \/ NextJob
    \/ \E j \in 1..MaxJobs : GetShoppingThumbnailResult(j)

\* The jobs and their tasks with requests for the result in between.
SpecResult == InitResult /\ [][NextResult]_vars

(***************************************************************************)
(* The schedule file under requests: add_scheduled, delete_scheduled and    *)
(* the poller _run_scheduled_posts                                          *)
(***************************************************************************)

\* str(int(time.time() * 1000)) + "_" + str(len(items)): the text names the
\* pair of its two numbers.
ItemId(ms, n) == <<ms, n>>

\* The dictionary add_scheduled stores; key names the request that made it.
NewItem(id, complete, key) ==
    [id |-> id, status |-> "pending", passed |-> TRUE, complete |-> complete, key |-> key]

\* The places of the items with this id.
PlacesOf(items, id) == {k \in 1..Len(items) : items[k].id = id}

\* mark_posted, mark_failed: "for x in items: if x.get('id') == item_id" sets
\* the status of the first such item, saves and returns.
MarkFirst(items, id, status) ==
    IF PlacesOf(items, id) = {} THEN items
    ELSE LET k == CHOOSE p \in PlacesOf(items, id) : \A q \in PlacesOf(items, id) : p <= q
         IN [items EXCEPT ![k].status = status]

RECURSIVE Without(_, _)
\* [x for x in items if x.get("id") != item_id]
Without(items, id) ==
    IF items = <<>> THEN <<>>
    ELSE IF Head(items).id = id THEN Without(Tail(items), id)
    ELSE <<Head(items)>> \o Without(Tail(items), id)

\* get_due_items: the dictionaries of the pending items whose time passed.
DueItems(items) == [n \in 1..Len(GetDueItems(items)) |-> items[GetDueItems(items)[n]]]

\* The clock moves on to the next millisecond.
ClockTick ==
    /\ pc = "study_queue"
    /\ queue.clock < MaxClock
    /\ queue' = [queue EXCEPT !.clock = queue.clock + 1]
    /\ UNCHANGED <<inputs, run, html, answers, between, pixel, painted,
                   sessions, uploads, posts, accounts, poll, search, jobs, writers>>

\* POST /api/sns/schedule: add_scheduled appends an item whose id is made of
\* the clock and of the number of items in the file, and saves.
AddScheduled ==
    /\ pc = "study_queue"
    /\ queue.adds < MaxAdds
    /\ \E complete \in BOOLEAN :
         queue' = [queue EXCEPT
                     !.items = Append(queue.items,
                                      NewItem(ItemId(queue.clock, Len(queue.items)),
                                              complete, queue.adds + 1)),
                     !.adds = queue.adds + 1,
                     !.published = Append(queue.published, 0)]
    /\ UNCHANGED <<inputs, run, html, answers, between, pixel, painted,
                   sessions, uploads, posts, accounts, poll, search, jobs, writers>>

\* DELETE /api/sns/schedule/{item_id} with the id of a stored item.
DeleteScheduled ==
    /\ pc = "study_queue"
    /\ \E k \in 1..Len(queue.items) :
         queue' = [queue EXCEPT !.items = Without(queue.items, queue.items[k].id)]
    /\ UNCHANGED <<inputs, run, html, answers, between, pixel, painted,
                   sessions, uploads, posts, accounts, poll, search, jobs, writers>>

\* The sleep of the poller is over: "due = get_due_items()".
QueueWake ==
    /\ pc = "study_queue"
    /\ queue.poller.pc = "sleep"
    /\ queue' = [queue EXCEPT !.poller = [pc |-> "loop", due |-> DueItems(queue.items),
                                          i |-> 1]]
    /\ UNCHANGED <<inputs, run, html, answers, between, pixel, painted,
                   sessions, uploads, posts, accounts, poll, search, jobs, writers>>

\* One turn of "for item in due" up to its await: an item without
\* connection_id or caption is marked failed, for any other one
\* post_to_connection is called and awaited.
QueueTurn ==
    /\ pc = "study_queue"
    /\ queue.poller.pc = "loop"
    /\ queue.poller.i <= Len(queue.poller.due)
    /\ LET item == queue.poller.due[queue.poller.i]
       IN IF ~item.complete
            THEN queue' = [queue EXCEPT !.items = MarkFirst(queue.items, item.id, "failed"),
                                        !.poller.i = queue.poller.i + 1]
            ELSE queue' = [queue EXCEPT !.poller.pc = "publishing"]
    /\ UNCHANGED <<inputs, run, html, answers, between, pixel, painted,
                   sessions, uploads, posts, accounts, poll, search, jobs, writers>>

\* post_to_connection is back: ok marks the item posted, an error marks it
\* failed, an exception leaves the loop for the sleep.
QueuePublished ==
    /\ pc = "study_queue"
    /\ queue.poller.pc = "publishing"
    /\ LET item == queue.poller.due[queue.poller.i]
       IN \E o \in PublishOutcomes :
            CASE o = "ok" ->
                   queue' = [queue EXCEPT
                               !.items = MarkFirst(queue.items, item.id, "posted"),
                               !.published[item.key] =
                                   IF queue.published[item.key] < 2
                                     THEN queue.published[item.key] + 1 ELSE 2,
                               !.poller.pc = "loop",
                               !.poller.i = queue.poller.i + 1]
              [] o = "error" ->
                   queue' = [queue EXCEPT
                               !.items = MarkFirst(queue.items, item.id, "failed"),
                               !.poller.pc = "loop",
                               !.poller.i = queue.poller.i + 1]
              [] OTHER ->
                   queue' = [queue EXCEPT !.poller = EmptyQueue.poller]
    /\ UNCHANGED <<inputs, run, html, answers, between, pixel, painted,
                   sessions, uploads, posts, accounts, poll, search, jobs, writers>>

\* The for loop is exhausted: "await asyncio.sleep(60)".
QueueSleep ==
    /\ pc = "study_queue"
    /\ queue.poller.pc = "loop"
    /\ queue.poller.i > Len(queue.poller.due)
    /\ queue' = [queue EXCEPT !.poller = EmptyQueue.poller]
    /\ UNCHANGED <<inputs, run, html, answers, between, pixel, painted,
                   sessions, uploads, posts, accounts, poll, search, jobs, writers>>

InitQueue ==
    /\ NoRun
    /\ pc = "study_queue"
    /\ NoStudy

NextQueue ==
    \/ ClockTick
    \/ AddScheduled
    \/ DeleteScheduled
    \/ QueueWake
    \/ QueueTurn
    \/ QueuePublished
    \/ QueueSleep

\* The poller task and the requests that add and delete items, interleaved
\* at the awaits of the event loop, starting from an empty schedule file.
SpecQueue == InitQueue /\ [][NextQueue]_vars

(***************************************************************************)
(* The connection store under concurrent requests: the logins               *)
(* exchange_facebook_code, exchange_threads_code, exchange_youtube_code and *)
(* disconnect_connection                                                    *)
(***************************************************************************)

\* The ids of the connections of a list.
IdsOf(conns) == {conns[k].id : k \in 1..Len(conns)}

\* {c.get(key) for c in connections if c.get("platform") == platform} holds
\* the one value the model has for key.
HasPlatform(conns, platform) == \E k \in 1..Len(conns) : conns[k].platform = platform

RECURSIVE WithoutId(_, _)
\* [c for c in connections if c.get("id") != connection_id]
WithoutId(conns, id) ==
    IF conns = <<>> THEN <<>>
    ELSE IF Head(conns).id = id THEN WithoutId(Tail(conns), id)
    ELSE <<Head(conns)>> \o WithoutId(Tail(conns), id)

\* sns_auth.py 120-139: the store is loaded; a page that is connected
\* already is skipped and the list saved as loaded; otherwise the page is
\* appended to the local list and the page detail awaited.
ExchangeFacebookCode ==
    /\ pc = "study_store"
    /\ writers.pc = "none"
    /\ writers.uuids < MaxUuids
    /\ IF HasPlatform(connections, "facebook")
         THEN /\ connections' = connections
              /\ writers' = writers
         ELSE /\ writers' = [writers EXCEPT
                               !.pc = "page",
                               !.uuids = writers.uuids + 1,
                               !.loaded = Append(connections,
                                                 SavedConnection(writers.uuids + 1,
                                                                 "facebook", "token", ""))]
              /\ connections' = connections
    /\ UNCHANGED <<inputs, run, html, answers, between, pixel, painted,
                   sessions, uploads, posts, listing, poll, search, jobs, queue>>

\* sns_auth.py 141-166: the page detail is back; an Instagram account that
\* is not connected yet is appended to the local list; the local list is
\* saved.
FacebookSave ==
    /\ pc = "study_store"
    /\ writers.pc = "page"
    /\ \E ig \in BOOLEAN :
         LET more  == ig /\ ~HasPlatform(writers.loaded, "instagram")
                         /\ writers.uuids < MaxUuids
             local == IF more
                        THEN Append(writers.loaded,
                                    SavedConnection(writers.uuids + 1, "instagram", "token", ""))
                        ELSE writers.loaded
         IN /\ connections' = local
            /\ writers' = [writers EXCEPT
                             !.pc = "none", !.loaded = <<>>,
                             !.uuids = IF more THEN writers.uuids + 1 ELSE writers.uuids,
                             !.added = writers.added \cup
                                       {local[k].id : k \in (Len(local) - (IF more THEN 1 ELSE 0))
                                                            ..Len(local)}]
    /\ UNCHANGED <<inputs, run, html, answers, between, pixel, painted,
                   sessions, uploads, posts, listing, poll, search, jobs, queue>>

\* sns_threads_youtube.py 81-93 and 202-212, after the last await of the
\* login: the store is loaded, the connection appended and the store saved;
\* a Threads account that is connected already is refused.
ExchangeCode ==
    /\ pc = "study_store"
    /\ writers.uuids < MaxUuids
    /\ \E platform \in {"threads", "youtube"}, refresh \in RefreshTokens :
         /\ platform = "threads" => refresh = ""
         /\ IF platform = "threads" /\ HasPlatform(connections, "threads")
              THEN /\ connections' = connections
                   /\ writers' = writers
              ELSE /\ connections' = Append(connections,
                                            SavedConnection(writers.uuids + 1, platform,
                                                            "token", refresh))
                   /\ writers' = [writers EXCEPT
                                    !.uuids = writers.uuids + 1,
                                    !.added = writers.added \cup {writers.uuids + 1}]
    /\ UNCHANGED <<inputs, run, html, answers, between, pixel, painted,
                   sessions, uploads, posts, listing, poll, search, jobs, queue>>

\* disconnect_connection(connection_id) of a stored connection: load, filter,
\* save, without an await.
Disconnect ==
    /\ pc = "study_store"
    /\ \E id \in IdsOf(connections) :
         /\ connections' = WithoutId(connections, id)
         /\ writers' = [writers EXCEPT !.removed = writers.removed \cup {id}]
    /\ UNCHANGED <<inputs, run, html, answers, between, pixel, painted,
                   sessions, uploads, posts, listing, poll, search, jobs, queue>>

InitStore ==
    /\ NoRun
    /\ pc = "study_store"
    /\ NoStudy

NextStore ==
    \/ ExchangeFacebookCode
    \/ FacebookSave
    \/ ExchangeCode
    \/ Disconnect

\* The requests that write sns_connections.json, interleaved at the awaits
\* of the event loop, starting from an empty store.
SpecStore == InitStore /\ [][NextStore]_vars

InitSearch ==
    /\ NoRun
    /\ pc = "study_search"
    /\ html = NoHtml /\ answers = <<>> /\ between = <<>>
    /\ pixel = NoPixel /\ painted = NotPainted
    /\ NoSessions /\ NoUploads /\ NoPosts /\ NoAccounts /\ NoPolling /\ NoTasks
    /\ search \in [pc : {"call"}, creds : Credentials \cup {<<FALSE, TRUE>>},
                    pid : ProductIdPlaces, has_httpx : BOOLEAN,
                    response : ApiResponses, called : {FALSE}, queried : {FALSE},
                    result : {NothingFound}]

NextSearch == SearchStep

\* Step 4 of scrape_naver_product on every url, pair of credentials and
\* response of the search API.
SpecSearch == InitSearch /\ [][NextSearch]_vars

InitPoll ==
    /\ NoRun
    /\ pc = "study_poll"
    /\ NoStudy

NextPoll ==
    \/ ReplicatePost
    \/ ReplicatePoll
    \/ ReplicateFetch

\* Calls of _replicate_remove, one after the other.  A call is straight-line
\* code in a worker thread: once started, each of its steps is taken.
SpecPoll ==
    /\ InitPoll
    /\ [][NextPoll]_vars
    /\ WF_vars(ReplicatePoll)
    /\ WF_vars(ReplicateFetch)

InitSchedule ==
    /\ NoRun
    /\ pc = "study_schedule"
    /\ html = NoHtml /\ answers = <<>> /\ between = <<>>
    /\ pixel = NoPixel /\ painted = NotPainted
    /\ NoSessions /\ NoUploads /\ NoAccounts /\ NoPolling /\ NoSearch /\ NoTasks
    /\ schedule \in [1..MaxItems -> {Item("pending", t, c) : t \in BOOLEAN, c \in BOOLEAN}]
    /\ poller = Asleep

NextSchedule ==
    \/ PollWake
    \/ PollItem
    \/ PollSleep
    \/ TimePasses

\* The poller task over a schedule file of pending items.  The event loop
\* keeps the task running: each of its steps is taken once it can be.
SpecSchedule ==
    /\ InitSchedule
    /\ [][NextSchedule]_vars
    /\ WF_vars(PollWake)
    /\ WF_vars(PollItem)
    /\ WF_vars(PollSleep)

(***************************************************************************)
(* Properties                                                               *)
(***************************************************************************)

HasData(r) == r.data.mime # "none"

HasError(r) == r.err # NoErr

Failed == ret.k = "returned" /\ HasError(ret)

Invoked(s) == s \in Range(stages)

\* C1: every call of run_pipeline that returns, returns a pair of which
\* exactly one component is non-null: a data URL and no message, or a
\* message and no data URL.
C1_SumType == ret.k = "returned" => (HasData(ret) <=> ~HasError(ret))

\* The cutout stage failed although neither engine left a message: the
\* returned message is the generic one.
C1_Witness ==
    /\ ret.k = "returned"
    /\ Invoked("cutout_remote")
    /\ rembg_err = NoErr
    /\ ret.err = Msg("CUTOUT_FAILED")

StageOrder ==
    <<"resolve", "cutout_local", "cutout_remote", "analyze", "background", "composite">>

StageIndex(s) == CHOOSE i \in 1..Len(StageOrder) : StageOrder[i] = s

\* The stage a returned message belongs to.
FailedStage(m) ==
    CASE m.id \in {"NOT_FOUND", "NEED_IMAGE_URL_OR_FILE"} -> 1
      [] m.id = "BACKGROUND_FAILED" -> 5
      [] m.id = "COMPOSITE_FAILED" -> 6
      [] OTHER -> 3

\* C2: the stages are invoked in the order resolution, cutout (local, then
\* remote), analysis, background, composite, each at most once; a stage is
\* invoked only with the non-null result of the stages before it; a stage
\* that has ended without a result makes the run return (null, message) at
\* once, and no stage after the failed one has been invoked in that run.
C2_StagesInOrder ==
    /\ \A i, j \in 1..Len(stages) :
         i < j => StageIndex(stages[i]) < StageIndex(stages[j])
    /\ (Invoked("cutout_local") \/ Invoked("cutout_remote"))
         => (img_url # NoUrl \/ Truthy(img_bytes))
    /\ Invoked("cutout_remote") => img_url # NoUrl
    /\ Invoked("analyze") => Truthy(product_png)
    /\ Invoked("background") => (Truthy(product_png) /\ ConceptTruthy(concept))
    /\ Invoked("composite") => (Truthy(product_png) /\ Truthy(bg_png))
    /\ (last.act = "resolver" /\ img_url = NoUrl /\ ret.k # "raised") => Failed
    /\ (last.act = "remote" /\ ~Truthy(product_png)) => Failed
    /\ (last.act = "background" /\ ~Truthy(bg_png)) => Failed
    /\ (last.act = "composite" /\ final = NoImage) => Failed
    /\ Failed => /\ pc = "done"
                 /\ \A s \in Range(stages) : StageIndex(s) <= FailedStage(ret.err)

\* Both cutout engines were tried and failed: the run has returned the
\* message and has not gone on to the analysis.
C2_Witness ==
    /\ Failed
    /\ stages = <<"resolve", "cutout_local", "cutout_remote">>
    /\ ret.err = Msg("REPLICATE_TIMEOUT")

Strategies == <<"httpx", "playwright", "uc", "mobile", "api">>

StrategyIndex(s) == CHOOSE i \in 1..Len(Strategies) : Strategies[i] = s

\* The outer call of scrape_naver_product has finished (and run_pipeline has
\* not yet taken its result).
ScrapeReturned == pc = "scrape" /\ Len(frames) = 1 /\ frames[1].pc = "ret"

AttemptsOf(s, d) == {i \in 1..Len(attempts) : attempts[i].s = s /\ attempts[i].d = d}

\* Every strategy that applies to the outer call has been attempted.
AllApplicableAttempted ==
    /\ env.HAS_HTTPX => Cardinality(AttemptsOf("httpx", 0)) = Len(UrlsToTry(url))
    /\ env.HAS_PLAYWRIGHT => AttemptsOf("playwright", 0) # {}
    /\ env.HAS_UC => AttemptsOf("uc", 0) # {}
    /\ IsSmartstoreDesktop(url) => AttemptsOf("mobile", 0) # {}
    /\ ApiApplicable(naver_creds, url) => AttemptsOf("api", 0) # {}

\* The pair in sret is the pair the step just taken found.
ReturnsTheFind ==
    /\ sret.ctl = "return"
    /\ sret.url = ImageUrl("scraped", last.o.naver)
    /\ sret.title = (IF last.o.title THEN SomeTitle ELSE NoTitle)

StrategyFailed ==
    last.act \in Range(Strategies) /\ last.out \in {"exc", "timeout"}

\* Where a call stands after the strategy named has given nothing.
AfterStrategy(s) ==
    CASE s = "httpx" -> {"httpx", "playwright"}
      [] s = "playwright" -> {"uc"}
      [] s = "uc" -> {"mobile"}
      [] s = "mobile" -> {"api"}
      [] s = "api" -> {"ret"}

\* C4: scrape_naver_product never raises; a strategy that fails by exception
\* or timeout only ends that strategy, the call standing at the next step of
\* the chain afterwards; the call returns a (url, title) pair or (null, null),
\* the latter only after every applicable strategy was attempted.
C4_NeverRaises ==
    /\ sret.ctl # "raise"
    /\ ret.k # "raised"
    /\ StrategyFailed =>
         /\ Len(frames) = last.d + 1
         /\ Top.pc \in AfterStrategy(last.act)
         /\ (Top.pc = "ret" => sret = ReturnNone)
    /\ ScrapeReturned =>
         /\ sret.ctl = "return"
         /\ (sret.url = NoUrl => (sret.title = NoTitle /\ AllApplicableAttempted))

\* Every strategy of a desktop product page was attempted, the last one (the
\* vendor API) raised, and the call returned (null, null).
C4_Witness ==
    /\ ScrapeReturned
    /\ sret = ReturnNone
    /\ last.act = "api" /\ last.out = "exc" /\ last.d = 0
    /\ AttemptsOf("mobile", 0) # {}
    /\ AttemptsOf("uc", 1) # {}

TimedOut == last.out = "timeout"

Called(c) == c \in Range(last.calls)

\* C5 as stated: whenever an external call of the resolver chain or of the
\* cutout chain exceeds its time budget (the 50 seconds around the whole
\* resolver and the 12 seconds around the mobile retry included), the run does
\* not end because of it and control proceeds to the next fallback.
C5_TimeoutNeverEndsRun ==
    TimedOut =>
        IF last.act = "remote" /\ Called("primary")
          THEN Called("secondary")
          ELSE ret.k = "pending" /\ pc # "done"

\* C5 amended: a timeout never raises out of the run and counts as the
\* failure of the strategy it hit.  Where the chain has a further fallback,
\* control stands at it afterwards: a resolver strategy is followed by the
\* next step of its call, the 12-second mobile retry by the vendor API step,
\* the local engine's download by the remote step, the primary remote model
\* by the secondary one.  Where it has none (the 50-second budget around the
\* whole resolver, the image download in front of the remote service), the
\* run ends with (null, message).
C5_TimeoutFailsStrategy ==
    TimedOut =>
        /\ ret.k # "raised"
        /\ last.act \in (Range(Strategies) \ {"mobile"}) =>
             /\ ret.k = "pending" /\ pc = "scrape"
             /\ Len(frames) = last.d + 1
             /\ Top.pc \in AfterStrategy(last.act)
        /\ last.act = "mobile" =>
             /\ ret.k = "pending" /\ pc = "scrape"
             /\ frames = <<[url |-> url, pc |-> "api", i |-> frames[1].i]>>
        /\ last.act = "local" => (ret.k = "pending" /\ pc = "remote")
        /\ (last.act = "remote" /\ Called("primary")) => Called("secondary")
        /\ (last.act = "remote" /\ ~Called("primary")) =>
             (pc = "done" /\ ret = ReturnError(Msg("NAVER_DOWNLOAD_FAILED")))
        /\ last.act = "resolver" =>
             (pc = "done" /\ ret = ReturnError(NotFound) /\ frames = <<>>)

\* The 50-second budget ran out while the mobile retry was at work: the run
\* has returned the not-found message.
C5_Witness ==
    /\ last = Step("resolver", "timeout")
    /\ ret = ReturnError(NotFound)
    /\ AttemptsOf("playwright", 1) # {}

\* C6: the local engine is attempted first whenever it is available; whenever
\* it is unavailable or yields no cutout and a token was supplied, the remote
\* service is attempted, for URL and local-file image sources alike; the
\* remote service is never called in a run where the local engine produced a
\* cutout.
C6_LocalThenRemote ==
    /\ (pc \in {"remote", "p40"} \/ Invoked("cutout_remote")) =>
         (env.HAS_REMBG <=> Invoked("cutout_local"))
    /\ (last.act = "remote" /\ last.out = "skip") =>
         (~replicate_token \/ product_png.src = "local")
    /\ (Invoked("cutout_remote") /\ Invoked("cutout_local")) =>
         product_png.src # "local"

\* C7: remove_background_local and remove_background_replicate never raise
\* and return a pair of which exactly one of (cutout bytes, message) is
\* non-null, for any input bytes and any response of the remote service, an
\* empty result body included.
C7_CutoutPairIsSum ==
    (last.act \in {"local", "remote"} /\ last.out # "skip") =>
        /\ ret.k # "raised"
        /\ (product_png # NoBytes) # (rembg_err # NoErr)

AnalysisGaveNull == last.act = "analyze" /\ last.out # "json"

\* C8: whenever analyze_product_gemini returns null (request failure, no
\* text, malformed or empty JSON) the concept becomes the fixed default
\* (category, core_colors ["#ffffff"], minimal white background) and the run
\* goes on to the background stage; no run returns because of the analysis.
C8_ConceptDefault ==
    /\ AnalysisGaveNull => concept = DefaultConcept
    /\ last.act = "analyze" => (pc = "p60" /\ ret.k = "pending" /\ ConceptTruthy(concept))
    /\ DefaultConcept.colors = ColorList(<<White>>)
    /\ (Failed /\ Invoked("analyze")) => Invoked("background")

\* The model answered with the object {}: the default concept is in place
\* and the run stands before the background stage.
C8_Witness ==
    /\ last = Step("analyze", "emptyjson")
    /\ concept = DefaultConcept
    /\ pc = "p60"

GradientUsed == last.act = "background" /\ last.out = "nogeneration" /\ Truthy(bg_png)

\* C9: when the generation yields no image, the background is a vertical
\* gradient whose endpoints come from the concept's core_colors (first two
\* valid hex values) or, lacking them, from dominant colours of the cutout;
\* a fixed pair is used only when neither gives a colour.
C9_GradientFromConcept ==
    GradientUsed =>
        \E extracted \in DominantSamples :
            bg_png.grad = MakeGradientBg(concept.colors, extracted)

ReturnedDataUrl == ret.k = "returned" /\ HasData(ret)

\* C10: every run that returns a data URL returns an image of exactly 1000 by
\* 1000 pixels, whatever the sizes of the cutout and of the background were.
C10_OutputIsCanvas ==
    /\ ReturnedDataUrl => (ret.data.w = 1000 /\ ret.data.h = 1000)
    /\ (last.act = "composite" /\ last.out = "ok") => final = [w |-> 1000, h |-> 1000]

\* A run over a generated background of another size has returned its image.
C10_Witness ==
    /\ ReturnedDataUrl
    /\ bg_png.src = "ai"
    /\ bg_png.w # 1000
    /\ bg_png.h # 1000

ProgressSequence == <<5, 20, 40, 60, 85, 100>>

Reported(v) == v \in Range(progress)

\* The last value a run that failed at the stage numbered s may have reported.
LastValueOfStage(s) ==
    CASE s = 1 -> 5 [] s \in {2, 3} -> 20 [] s = 4 -> 40 [] s = 5 -> 60 [] s = 6 -> 85

\* C11: the values passed to the progress sink within one run are strictly
\* increasing and form a prefix of 5, 20, 40, 60, 85, 100; 100 is reported
\* only in a run that then returns a data URL; a run that fails at a stage
\* has reported no value of a later stage.
C11_ProgressPrefix ==
    /\ Len(progress) <= Len(ProgressSequence)
    /\ \A i \in 1..Len(progress) : progress[i] = ProgressSequence[i]
    /\ \A i, j \in 1..Len(progress) : i < j => progress[i] < progress[j]
    /\ Reported(100) => (pc \in {"finish", "done"} /\ final # NoImage)
    /\ (Reported(100) /\ pc = "done") => ReturnedDataUrl
    /\ Failed => \A v \in Range(progress) : v <= LastValueOfStage(FailedStage(ret.err))

SinkRaised == last.act = "progress" /\ last.out = "exc"

\* C12: when the progress sink raises on an invocation, run_pipeline swallows
\* the exception: the run does not raise, its result is untouched and it goes
\* on with the stage behind that progress point.
C12_SinkErrorsSwallowed ==
    /\ ret.k # "raised"
    /\ SinkRaised => (ret.k = "pending" /\ pc # "done")

AuthResponses == {"auth401", "auth403"}

\* The remote service was called and the step just taken answered r on the
\* primary or on the secondary model.
RemoteAnswered(rs) == last.act = "remote" /\ (last.out \in rs \/ last.out2 \in rs)

\* C13: whenever the remote service rejects the credentials (HTTP 401 or 403)
\* on the primary or on the secondary model and the cutout stage fails, the
\* message run_pipeline returns is the authentication-failure message,
\* whatever the other model answered.
C13_AuthFailureSurfaced ==
    (RemoteAnswered(AuthResponses) /\ Failed) =>
        (ret.err.id = "REPLICATE_AUTH" /\ ret.err.status \in {401, 403})

\* C14: whenever the remote service answers HTTP 402 on the primary or on the
\* secondary model and the cutout stage fails, the message run_pipeline
\* returns carries the billing hint.
C14_BillingHint ==
    (RemoteAnswered({"pay402"}) /\ Failed) => ret.err.hint = "billing"

Blocked == html.len = 0 \/ html.len < 500 \/ html.marker

Answered(i) == i \in 1..Len(answers)

\* C15: _extract_image_from_html returns the empty candidate (url null,
\* title null) for every input that is empty, shorter than 500 characters or
\* holds an error-page marker, whatever image or title markup it also holds.
C15_BlockedGivesEmpty ==
    \A i \in 1..Len(answers) : Blocked => answers[i] = Extracted(NoLink, NoTitle)

\* A document of 499 characters with an og:image and an og:title tag gave
\* the empty candidate.
C15_Witness ==
    /\ Answered(1)
    /\ html.len = 499 /\ ~html.marker /\ html.title
    /\ html.els = <<Element("og_image", OtherJpg)>>
    /\ answers[1].url = NoLink

\* The six rules in the order of the claim, each with what it yields.
RuleYields(h) ==
    <<OgImageRule(h), AltImageRule(h), CdnPathRule(h), EmbeddedRule(h),
      BroadCdnRule(h), GenericRule(h)>>

\* The yield of the highest-priority rule that yields a URL, else null.
HighestPriorityYield(h) ==
    LET yields == RuleYields(h)
        yielding == {i \in 1..6 : yields[i] # NoLink}
    IN IF yielding = {} THEN NoLink
       ELSE yields[CHOOSE i \in yielding : \A j \in yielding : i <= j]

\* C16: for non-blocked input the extractor returns the URL of the
\* highest-priority rule that yields a URL beginning with http, in the order
\* og:image, representative-image alt element, CDN path regex, JSON-embedded
\* fields, broad CDN-domain pattern, generic fields; a lower rule is used only
\* when every higher one yielded none; every non-null returned URL begins
\* with http.
C16_RulePriority ==
    answers # <<>> =>
        LET highest == HighestPriorityYield(html)
        IN \A i \in 1..Len(answers) :
               /\ ~Blocked => answers[i].url = highest
               /\ answers[i].url # NoLink => (answers[i].url.http /\ ~answers[i].url.pad)

\* The og:image value is a relative path and the CDN path regex matches
\* nothing: the JSON field is used although a generic field comes first in
\* the document.
C16_Witness ==
    /\ Answered(1)
    /\ ~Blocked
    /\ html.els = <<Element("og_image", Relative), Element("imageUrl", PhinfEscaped)>>
    /\ answers[1].url = Unescape(PhinfEscaped)

ClaimedWords ==
    {<<"l", "o", "g", "o">>, <<"i", "c", "o", "n">>,
     <<"b", "a", "n", "n", "e", "r">>, <<"a", "d">>}

HasClaimedWord(u) == \E w \in ClaimedWords : Contains(u.path, w)

\* The answer is the value a JSON-field rule accepted.
FromFieldRule(r) ==
    /\ r.url # NoLink
    /\ OgImageRule(html) = NoLink /\ AltImageRule(html) = NoLink
    /\ CdnPathRule(html) = NoLink
    /\ LET embedded == EmbeddedRule(html)
       IN \/ r.url = embedded
          \/ embedded = NoLink /\ BroadCdnRule(html) = NoLink

\* C17: no URL accepted by a JSON-field rule of the extractor holds logo,
\* icon, banner or ad, in any case; a field value holding one of them is
\* rejected and the extraction goes on with the next pattern or rule.
C17_FieldRulesExclude ==
    /\ \A u \in {EmbeddedRule(html), GenericRule(html)} \ {NoLink} : ~HasClaimedWord(u)
    /\ \A i \in 1..Len(answers) : FromFieldRule(answers[i]) => ~HasClaimedWord(answers[i].url)

\* The "imageUrl" field holds a LOGO URL, the "image" field a clean one: the
\* first is rejected and the second returned.
C17_Witness ==
    /\ Answered(1)
    /\ ~Blocked
    /\ html.els = <<Element("imageUrl", PhinfLogoEscaped), Element("image", PhinfEscaped)>>
    /\ HasClaimedWord(html.els[1].url)
    /\ answers[1].url = Unescape(PhinfEscaped)

C19_RefineAlpha ==
    painted.ok =>
        /\ painted.a \in 0..255
        /\ pixel.a < 95 => painted.a = 0
        /\ pixel.a >= 250 => painted.a = 255
        /\ (pixel.a >= 95 /\ pixel.a < 250) =>
               /\ 155 * painted.a <= (pixel.a - 95) * 255
               /\ (pixel.a - 95) * 255 < 155 * (painted.a + 1)
        /\ \A v \in 0..pixel.a : RefineAlpha(v) <= painted.a
        /\ \A v \in pixel.a..255 : painted.a <= RefineAlpha(v)

\* Alpha 249, the highest value of the linear part, became 253.
C19_Witness ==
    /\ painted.ok
    /\ pixel.a = 249
    /\ painted.a = 253

C21_SingleSession ==
    /\ Len(stored) <= 1
    /\ \A t \in Workers :
         callers[t].got # NoSession => callers[t].got = REMBG_SESSION

\* run_pipeline is past lines 846-872.
PastSource == pc \notin {"p5", "source"} /\ ~(ret.k = "raised" /\ progress = <<5>>)

HasInvalidColors(c) ==
    \/ c.colors.k = "notstrings"
    \/ c.colors.k = "list" /\ \E i \in 1..Len(c.colors.v) : ParseHex(c.colors.v[i]) = <<>>

C25_DueItemsSettled ==
    \A k \in 1..MaxItems :
        (schedule[k].status = "pending" /\ schedule[k].passed)
            ~> (schedule[k].status \in {"posted", "failed"})

SecretKeys == {"access_token", "refresh_token"}

\* C26: whatever the connection store holds, no dictionary returned by
\* list_connections_public has an access_token or a refresh_token key, for
\* a connection of any of the four platforms.
C26_ListingHasNoTokens ==
    \A i \in 1..Len(listing) : DOMAIN listing[i] \cap SecretKeys = {}

\* A listing of two connections which both store an access token, one of
\* them a youtube connection with a refresh token, the other a connection
\* of another platform that was given a refresh token by an update.
C26_Witness ==
    /\ Len(listing) = 2
    /\ \E i, j \in 1..2 :
         /\ connections[i].platform = "youtube"
         /\ connections[j].platform # "youtube"
         /\ SecretKeys \subseteq DOMAIN connections[i]
         /\ SecretKeys \subseteq DOMAIN connections[j]
         /\ connections[i].refresh_token \in Tokens
         /\ listing[i].platform = "youtube"

\* The step just taken called remove_background_replicate and it went as
\* far as the primary model version.
PrimaryCalled == last.act = "remote" /\ "primary" \in Range(last.calls)

SecondaryCalled == last.act = "remote" /\ "secondary" \in Range(last.calls)

\* The message _replicate_remove returns on the response resp, NoErr when
\* it returns a body.
ErrorOf(resp) == ReplicateRemove(TRUE, resp).err

\* C27: remove_background_replicate calls the secondary model version if
\* and only if the primary version returned no result (no body, or an empty
\* one), never after the primary succeeded, and when both fail it returns
\* the primary's message if there is one, otherwise the secondary's.
C27_SecondaryIffPrimaryFailed ==
    /\ SecondaryCalled => PrimaryCalled
    /\ PrimaryCalled =>
         /\ SecondaryCalled <=> last.out # "ok"
         /\ last.out = "ok" => (product_png = Bytes("remote") /\ rembg_err = NoErr)
         /\ (SecondaryCalled /\ last.out2 \notin {"ok"}) =>
              /\ ~Truthy(product_png)
              /\ rembg_err = IF ErrorOf(last.out) # NoErr THEN ErrorOf(last.out)
                              ELSE ErrorOf(last.out2)

\* The primary version answered an empty body, which carries no message,
\* and the secondary version failed: the message returned is the
\* secondary's.
C27_Witness ==
    /\ PrimaryCalled /\ SecondaryCalled
    /\ last.out = "empty" /\ last.out2 = "http500"
    /\ rembg_err = MsgHttp("REPLICATE_HTTP", 500)

\* The step just taken called generate_background_gemini and the primary
\* image model answered with a response of kind k.
PrimaryAnswered(k) ==
    /\ last.act = "background"
    /\ PrimaryImageModel \in Range(last.calls)
    /\ last.out2 = k

\* C28: generate_background_gemini asks the secondary image model whenever
\* the primary model's response holds no image part, not only when the
\* primary request itself fails, and returns the first inline image payload
\* of the response it ends up using.
C28_RetriesWithoutImagePart ==
    /\ (PrimaryAnswered("fail") \/ PrimaryAnswered("noimage")) =>
         SecondaryImageModel \in Range(last.calls)
    /\ (PrimaryAnswered("image") \/ PrimaryAnswered("garbage")) =>
         (last.calls = <<PrimaryImageModel>> /\ last.out = "generated")

\* The positions of the items that have the productId asked for and an
\* http image.
ExactMatches == {i \in 1..Len(search.response.items) :
                   /\ search.response.items[i].same
                   /\ search.response.items[i].image.k = "http"}

\* What the search is to give on the response in hand: the exact match
\* with an http image, otherwise the first item when it has an http image,
\* otherwise (None, None).
Selected ==
    LET items == search.response.items
    IN IF ~search.response.ok THEN NothingFound
       ELSE IF ExactMatches # {}
              THEN LET i == CHOOSE i \in ExactMatches : \A j \in ExactMatches : i <= j
                   IN [image |-> [k |-> "http", n |-> i],
                       title |-> CleanTitle(items[i].title)]
       ELSE IF Len(items) > 0 /\ items[1].image.k = "http"
              THEN [image |-> [k |-> "http", n |-> 1], title |-> CleanTitle(items[1].title)]
       ELSE NothingFound

SelectionRule ==
    search.pc = "returned" =>
        /\ search.queried => search.result = Selected
        /\ ~search.queried => search.result = NothingFound

\* C29 as stated: the vendor search API is queried only when both client
\* credentials are non-empty and the path of the url holds
\* /products/<digits>; its result is the image and title of the item with
\* that productId when it has an http image, otherwise those of the first
\* item when it has an http image, otherwise (None, None).
C29_QueriedOnlyForPathId ==
    /\ search.queried => (search.creds = <<TRUE, TRUE>> /\ search.pid = "path")
    /\ SelectionRule

\* C29 without the restriction to the path: the vendor search API is
\* queried only when both client credentials are non-empty and the url
\* holds /products/<digits> anywhere, in its path or after it; the result is
\* selected as stated.
C29_QueriedOnlyForUrlId ==
    /\ search.queried => (search.creds = <<TRUE, TRUE>> /\ search.pid \in {"path", "query"})
    /\ SelectionRule

\* The API was queried and answered two items: the first has an http image
\* and another productId, the second is the exact match with an http image,
\* and the second is what the search returned.
C29_Witness ==
    /\ search.pc = "returned" /\ search.queried /\ search.response.ok
    /\ Len(search.response.items) = 2
    /\ ~search.response.items[1].same /\ search.response.items[1].image.k = "http"
    /\ search.response.items[2].same /\ search.response.items[2].image.k = "http"
    /\ search.result.image = [k |-> "http", n |-> 2]

\* What holds of a call of _replicate_remove at every moment: no more than
\* PollLimit polls; it is in the loop only while no poll gave an output, the
\* status succeeded or the status failed, and only while turns are left; a
\* poll answering failed has ended the call with a message; a call that
\* returned gave either the bytes or a message.
PollingBounded ==
    /\ poll.n <= PollLimit
    /\ poll.pc = "polling" =>
         /\ poll.n < PollLimit
         /\ poll.output = "none"
         /\ poll.status \notin {"failed", "succeeded"}
    /\ (poll.n > 0 /\ poll.status = "failed") =>
         (poll.pc = "returned" /\ poll.out = "error")
    /\ poll.pc = "returned" => poll.out \in {"bytes", "error"}

\* C30: when the remote service answers asynchronously, _replicate_remove
\* polls the status URL at most 60 times and then terminates with the result
\* bytes or a message; it stops polling at once with a message when the
\* status is failed, and stops polling as soon as an output is present or
\* the status is succeeded.
C30_PollingTerminates ==
    /\ []PollingBounded
    /\ (poll.pc = "polling") ~> (poll.pc = "returned")

\* A call whose 60 polls all found the prediction still processing: the
\* loop ran out and the call returned the no-output message.
C30_Witness ==
    /\ poll.pc = "returned"
    /\ poll.n = PollLimit
    /\ poll.status = "processing" /\ poll.output = "none"
    /\ poll.out = "error"

\* The call stack of scrape_naver_product: at most the outer call and one
\* recursive call, the recursive one made by a call on a desktop URL of the
\* retailer and running on its mobile variant; the step after an expired
\* 12-second budget is the vendor API step of the outer call, which has no
\* result in hand.
RecursionBounded ==
    /\ Len(frames) <= 2
    /\ Len(frames) = 2 =>
         /\ frames[1].url.host = "smartstore"
         /\ frames[1].pc = "await_mobile"
         /\ frames[2].url.host = "m.smartstore"
    /\ (last.act = "mobile" /\ last.out = "timeout") =>
         /\ Len(frames) = 1
         /\ frames[1].pc = "api"
         /\ sret = NoScrapeReturn

ConfiguredOrder(quality) ==
    IF quality = "high"
      THEN <<"bria-rmbg", "birefnet-general", "isnet-general-use", "u2net">>
      ELSE <<"isnet-general-use", "u2net", "bria-rmbg">>

\* The call of thread t went by the configured order: it found a cached
\* session and returned it without trying a model, or it found none, tried
\* the models in order, returned the first that initialized and tried no
\* model after it, or returned None after all of them failed.
CallInOrder(t) ==
    LET c == callers[t]
        order == ConfiguredOrder(c.quality)
    IN c.pc # "outside" =>
         /\ Len(c.tried) <= Len(order)
         /\ c.tried = SubSeq(order, 1, Len(c.tried))
         /\ c.saw # NoSession => (c.pc = "returned" /\ c.tried = <<>> /\ c.got = c.saw)
         /\ (c.pc = "returned" /\ c.saw = NoSession) =>
              IF c.got = NoSession THEN c.tried = order
              ELSE c.got = Session(t, c.tried[Len(c.tried)])

\* C32: _get_rembg_session tries the models in the configured order (four
\* for high quality, three for balanced or low), caches the first session
\* that initializes and tries no later model; a call that finds the cache
\* filled returns the cached session without initializing a model; when
\* every model fails it returns None and caches nothing, so that the next
\* call tries the chain again.
C32_ModelsInOrder ==
    /\ \A t \in Workers : CallInOrder(t)
    /\ \A t \in Workers :
         (callers[t].pc = "returned" /\ callers[t].got # NoSession
            /\ callers[t].tried # <<>>) =>
              \E i \in 1..Len(stored) : stored[i] = callers[t].got
    /\ (\A t \in Workers : callers[t].got = NoSession) =>
         (REMBG_SESSION = NoSession /\ stored = <<>>)

\* One thread found every model of the light profile failing and returned
\* None; the next call then went through the high-quality chain from its
\* first model, got the third model initialized and cached it.
C32_Witness ==
    \E t, u \in Workers :
       /\ callers[t].pc = "returned" /\ callers[t].got = NoSession
       /\ callers[t].tried = LightModels
       /\ callers[u].pc = "returned" /\ callers[u].quality = "high"
       /\ callers[u].tried = <<"bria-rmbg", "birefnet-general", "isnet-general-use">>
       /\ REMBG_SESSION = Session(u, "isnet-general-use")
       /\ stored = <<REMBG_SESSION>>

\* The refreshes of the call in hand: asked for only with a refresh token,
\* only by a phase whose first answer had status 401, and once per phase at
\* most; the calls of the upload start and of the upload are bounded.
RefreshesBounded ==
    /\ yt.refreshes \in {<<>>, <<"start">>, <<"upload">>, <<"start", "upload">>}
    /\ yt.refreshes # <<>> => yt.refresh_token
    /\ (\E i \in 1..Len(yt.refreshes) : yt.refreshes[i] = "start") =>
         yt.first_start = "error401"
    /\ (\E i \in 1..Len(yt.refreshes) : yt.refreshes[i] = "upload") =>
         yt.first_up = "error401"
    /\ yt.starts <= 1 + Len(yt.refreshes)
    /\ yt.uploads <= 2

\* The call returned ok with a token other than the one it was given.
OkAfterRefresh ==
    yt.pc \in {"returned", "posted"} /\ yt.out = "ok" /\ yt.access_token # yt.given

\* C33: in post_to_youtube a token refresh happens only in response to an
\* HTTP 401 when a refresh token exists, at most once per phase, so the
\* number of upload attempts is bounded; whenever the call returns ok after
\* a refresh its result carries the refreshed token as new_access_token, and
\* post_to_connection writes it to the stored connection.
C33_RefreshedTokenStored ==
    /\ RefreshesBounded
    /\ OkAfterRefresh => yt.new_access_token = yt.access_token
    /\ (OkAfterRefresh /\ yt.pc = "posted") => yt.conn_token = yt.access_token

\* Both phases met a 401 and refreshed: the call returned ok and the token
\* of the second refresh is the one stored.
C33_Witness ==
    /\ yt.pc = "posted" /\ yt.out = "ok"
    /\ yt.refreshes = <<"start", "upload">>
    /\ yt.start_new # NoToken /\ yt.up_new # NoToken /\ yt.start_new # yt.up_new
    /\ yt.conn_token = yt.up_new

TerminalStatuses == {"completed", "failed"}

\* The moves of the status of one job, and what a terminal job keeps.
JobMoves ==
    \A j \in 1..MaxJobs :
      /\ jobs'[j].status # jobs[j].status =>
           <<jobs[j].status, jobs'[j].status>> \in
             {<<"absent", "pending">>, <<"pending", "processing">>,
              <<"processing", "completed">>, <<"processing", "failed">>}
      /\ jobs[j].status \in TerminalStatuses =>
           /\ jobs'[j].status = jobs[j].status
           /\ jobs'[j].result_data_url = jobs[j].result_data_url
           /\ jobs'[j].error = jobs[j].error

\* A task that is over left its job completed or failed.
EndedIsTerminal ==
    \A j \in 1..MaxJobs : jobs[j].task = "ended" => jobs[j].status \in TerminalStatuses

\* C34: the status of a job only moves pending -> processing -> completed or
\* failed; a completed or failed job keeps its status, result_data_url and
\* error; every job whose pipeline call returns or raises ends completed or
\* failed.
C34_JobStatusMoves ==
    /\ [][JobMoves]_vars
    /\ []EndedIsTerminal
    /\ \A j \in 1..MaxJobs :
         (jobs[j].status = "pending") ~> (jobs[j].status \in TerminalStatuses)

\* A job failed by an exception of the pipeline call while another job is
\* still being processed.
C34_Witness ==
    /\ jobs[1].status = "failed" /\ jobs[1].error = "exception" /\ jobs[1].reported = 3
    /\ jobs[2].status = "processing"

\* C35: a completed job has a result_data_url, no error and progress 100; a
\* failed job has an error and no result_data_url; the result endpoint
\* answers with the image bytes only for a completed job that has a result
\* and with 404 otherwise.
C35_TerminalFields ==
    \A j \in 1..MaxJobs :
      /\ jobs[j].status = "completed" =>
           /\ jobs[j].result_data_url # "None"
           /\ jobs[j].error = "None"
           /\ jobs[j].progress = 100
      /\ jobs[j].status = "failed" =>
           /\ jobs[j].error # "None"
           /\ jobs[j].result_data_url = "None"
      /\ jobs[j].response = "bytes" =>
           jobs[j].status = "completed" /\ jobs[j].result_data_url # "None"
      /\ jobs[j].response \notin {"none", "bytes"} =>
           /\ jobs[j].response = "404"
           /\ ~(jobs[j].status = "completed" /\ jobs[j].result_data_url # "None")

\* The result of a completed job was served, the request for the result of a
\* failed job was answered with 404.
C35_Witness ==
    /\ jobs[1].status = "completed" /\ jobs[1].response = "bytes"
    /\ jobs[2].status = "failed" /\ jobs[2].response = "404"

\* C37: the stored items have pairwise distinct ids, so that mark_posted,
\* mark_failed and delete_scheduled act on exactly one item.
C37_DistinctIds ==
    \A k, n \in 1..Len(queue.items) :
      queue.items[k].id = queue.items[n].id => k = n

\* C36: with the poller running and requests adding and deleting items in
\* between, no item is published more than once.
C36_PublishedAtMostOnce ==
    \A k \in 1..Len(queue.published) : queue.published[k] <= 1

\* C38: under any interleaving of the logins and disconnect_connection no
\* update of the connection store is lost: a disconnected connection is not
\* in the store, a connection saved by a login and not disconnected is.
C38_NoUpdateLost ==
    /\ \A id \in writers.removed : id \notin IdsOf(connections)
    /\ \A id \in writers.added \ writers.removed : id \in IdsOf(connections)

\* C39: for every decodable cutout of at least 1 x 1 pixels the scaled width
\* and the scaled height composite_thumbnail computes are both at least 1,
\* and the resize to them does not fail.
C39_ScaledSidesPositive ==
    painted.done => (painted.nw >= 1 /\ painted.nh >= 1 /\ painted.ok)

====
